---------------------------- MODULE Spec2Model ----------------------------
(***************************************************************************)
(* A model of the MRKL agent pipeline (src/mrkl_agent): the calculator     *)
(* adapter (tools.py), the reflector (reflector_agent.py) and the agent    *)
(* (agent.py).  Python strings are TLA+ strings; a character is a string   *)
(* of length one, read with At(s, i).  Python numbers are exact rationals  *)
(* tagged int or float.  The few characters of the program's texts that    *)
(* are not ASCII (the check marks and bullets of its messages) are written *)
(* with ASCII stand-ins, and so are the two characters outside ASCII that  *)
(* the queries of the model contain.                                       *)
(***************************************************************************)
EXTENDS Integers, Sequences, FiniteSets, TLC

VARIABLES
    pc,                  \* position of the call in progress
    query,               \* the query of the call
    env,                 \* what the outside world answers during the call
    frame,               \* the locals of the call: selected_tool, parameters, tool_result, final_response
    reasoning_steps,     \* FreeLLMAgent.reasoning_steps
    validation_history,  \* ReflectorAgent.validation_history
    result               \* what the call returned, or the exception that left it

vars == <<pc, query, env, frame, reasoning_steps, validation_history, result>>

---------------------------------------------------------------------------
(* Python str primitives                                                   *)

At(s, i) == SubSeq(s, i, i)

From(s, i) == SubSeq(s, i, Len(s))

Digits == "0123456789"
LowerLetters == "abcdefghijklmnopqrstuvwxyz"
UpperLetters == "ABCDEFGHIJKLMNOPQRSTUVWXYZ"

CharSet(s) == {At(s, i) : i \in 1..Len(s)}

DigitChars == CharSet(Digits)
LowerChars == CharSet(LowerLetters)
UpperChars == CharSet(UpperLetters)

IsDigit(c) == c \in DigitChars
\* str.isalpha() on one character of the modelled (ASCII) alphabet
IsAlpha(c) == c \in LowerChars \/ c \in UpperChars
\* the regular expression class \s, and what str.strip() removes
WsChars == {" ", "\n", "\t"}

IndexIn(s, c) == CHOOSE i \in 1..Len(s) : At(s, i) = c

\* two characters outside ASCII that str.lower() treats specially, written with
\* ASCII stand-ins: U+0130 (capital I with dot above) and U+0307 (combining dot
\* above); neither is in the class [a-zA-Z], and U+0307 is no letter
CapitalIDot == "@"
CombiningDot == "#"

\* str.lower() of one character: one character, except for U+0130, whose lower
\* case is the two code points  i U+0307
LowerChar(c) ==
    IF c = CapitalIDot THEN "i" \o CombiningDot
    ELSE IF c \in UpperChars THEN At(LowerLetters, IndexIn(UpperLetters, c)) ELSE c
UpperChar(c) == IF c \in LowerChars THEN At(UpperLetters, IndexIn(LowerLetters, c)) ELSE c

RECURSIVE Lower(_)
\* str.lower()
Lower(s) ==
    IF Len(s) = 0 THEN ""
    ELSE IF Len(s) = 1 THEN LowerChar(s)
    ELSE LET h == Len(s) \div 2
         IN  Lower(SubSeq(s, 1, h)) \o Lower(SubSeq(s, h + 1, Len(s)))

\* `w in s` for strings
Contains(s, w) ==
    \E i \in 1..(Len(s) - Len(w) + 1) : SubSeq(s, i, i + Len(w) - 1) = w

\* any(w in s for w in ws)
ContainsAny(s, ws) == \E w \in ws : Contains(s, w)

\* str.strip()
Strip(s) ==
    LET keep == {i \in 1..Len(s) : At(s, i) \notin WsChars}
    IN  IF keep = {} THEN ""
        ELSE SubSeq(s, CHOOSE i \in keep : \A j \in keep : i <= j,
                       CHOOSE i \in keep : \A j \in keep : i >= j)

RECURSIVE ReplaceAll(_, _, _)
\* str.replace(old, new), old non-empty: leftmost, non-overlapping occurrences
ReplaceAll(s, old, new) ==
    LET hits == {i \in 1..(Len(s) - Len(old) + 1) : SubSeq(s, i, i + Len(old) - 1) = old}
    IN  IF hits = {} THEN s
        ELSE LET i == CHOOSE k \in hits : \A j \in hits : k <= j
             IN  SubSeq(s, 1, i - 1) \o new \o ReplaceAll(From(s, i + Len(old)), old, new)

\* the end of the longest run of characters satisfying the class cls that starts at i
\* (i - 1 when s[i] is not in the class): a greedy  [cls]*  from i
RunEnd(s, i, cls) ==
    LET stops == {j \in i..Len(s) : At(s, j) \notin cls}
    IN  IF stops = {} THEN Len(s)
        ELSE (CHOOSE j \in stops : \A k \in stops : j <= k) - 1

Min(S) == CHOOSE x \in S : \A y \in S : x <= y
Max(S) == CHOOSE x \in S : \A y \in S : x >= y

---------------------------------------------------------------------------
(* Python numbers.  A value is a record [kind, num, den]: kind "int" or    *)
(* "float" with the exact rational num/den in lowest terms (den > 0),      *)
(* "obj" for a non-numeric object (a builtin function, the empty tuple),   *)
(* "none" for None.                                                        *)

NoneVal == [kind |-> "none", num |-> 0, den |-> 1, name |-> ""]
\* an object that is no number; name is what str() shows of it
ObjVal(name) == [kind |-> "obj", num |-> 0, den |-> 1, name |-> name]

\* how many fractional decimal digits of a float the model keeps, when a float
\* is written (str) and when a literal is read (float(), eval): IEEE doubles
\* keep about 16, and every tolerance of the program is 0.01
FracDigits == 4

Abs(n) == IF n < 0 THEN -n ELSE n

RECURSIVE Gcd(_, _)
Gcd(a, b) == IF b = 0 THEN a ELSE Gcd(b, a % b)

Rat(kind, n, d) ==
    LET g == Gcd(Abs(n), Abs(d))
        sgn == IF d < 0 THEN -1 ELSE 1
    IN  [kind |-> kind, num |-> sgn * (n \div g), den |-> sgn * (d \div g), name |-> ""]

IntVal(n) == [kind |-> "int", num |-> n, den |-> 1, name |-> ""]

IsNum(v) == v.kind \in {"int", "float"}

RECURSIVE Pow(_, _)
Pow(b, e) == IF e = 0 THEN 1 ELSE b * Pow(b, e - 1)

\* a < b on values
NumLess(a, b) == a.num * b.den < b.num * a.den

\* abs(a - b) on values, as a float
AbsDiff(a, b) == Rat("float", Abs(a.num * b.den - b.num * a.den), a.den * b.den)

---------------------------------------------------------------------------
(* eval(): the Python expression evaluator both the calculator and the     *)
(* reflector call.  It is modelled on arithmetic expressions: number       *)
(* literals, + - * / // **, unary signs, parentheses, and bare names       *)
(* (a builtin evaluates to an object, any other name raises NameError).    *)
(* Text outside this grammar is a SyntaxError.                             *)

OpChars == {"+", "-", "*", "/"}

RECURSIVE DecVal(_)
\* the value of a string of decimal digits
DecVal(s) ==
    IF s = "" THEN 0
    ELSE DecVal(SubSeq(s, 1, Len(s) - 1)) * 10 + (IndexIn(Digits, At(s, Len(s))) - 1)

\* the token of s that starts at i (s[i] is not a space): [t, s, len]
TokenAt(s, i) ==
    LET c == At(s, i)
        c2 == IF i < Len(s) THEN SubSeq(s, i, i + 1) ELSE c
    IN  IF IsDigit(c) \/ (c = "." /\ i < Len(s) /\ IsDigit(At(s, i + 1)))
        THEN LET e1 == RunEnd(s, i, DigitChars)
                 e2 == IF e1 < Len(s) /\ At(s, e1 + 1) = "."
                       THEN RunEnd(s, e1 + 2, DigitChars) ELSE e1
             IN  IF e2 < Len(s) /\ (IsAlpha(At(s, e2 + 1)) \/ At(s, e2 + 1) = ".")
                 THEN [t |-> "bad", s |-> SubSeq(s, i, e2 + 1), len |-> e2 + 2 - i]
                 ELSE [t |-> "num", s |-> SubSeq(s, i, e2), len |-> e2 + 1 - i]
        ELSE IF IsAlpha(c)
        THEN LET e == RunEnd(s, i, LowerChars \cup UpperChars \cup DigitChars)
             IN  [t |-> "name", s |-> SubSeq(s, i, e), len |-> e + 1 - i]
        ELSE IF c2 \in {"**", "//"} THEN [t |-> "op", s |-> c2, len |-> 2]
        ELSE IF c \in OpChars THEN [t |-> "op", s |-> c, len |-> 1]
        ELSE IF c = "(" THEN [t |-> "lp", s |-> c, len |-> 1]
        ELSE IF c = ")" THEN [t |-> "rp", s |-> c, len |-> 1]
        ELSE [t |-> "bad", s |-> c, len |-> 1]

RECURSIVE Tokenize(_, _)
\* the tokens of s from position i on
Tokenize(s, i) ==
    IF i > Len(s) THEN <<>>
    ELSE IF At(s, i) = " " THEN Tokenize(s, i + 1)
    ELSE LET tok == TokenAt(s, i) IN <<tok>> \o Tokenize(s, i + tok.len)

\* a number literal's value; a decimal integer literal with a leading zero is
\* a syntax error unless it is all zeros
LiteralOk(lit) ==
    \/ Contains(lit, ".")
    \/ Len(lit) = 1
    \/ At(lit, 1) # "0"
    \/ \A i \in 1..Len(lit) : At(lit, i) = "0"

LiteralVal(lit) ==
    IF Contains(lit, ".")
    THEN LET dot == IndexIn(lit, ".")
             ip == SubSeq(lit, 1, dot - 1)
             fp == SubSeq(lit, dot + 1, Min({Len(lit), dot + FracDigits}))
         IN  Rat("float", DecVal(ip) * Pow(10, Len(fp)) + DecVal(fp), Pow(10, Len(fp)))
    ELSE IntVal(DecVal(lit))

\* a op b: [err, val]
BinOp(op, a, b) ==
    IF a.err # "" THEN a
    ELSE IF b.err # "" THEN b
    ELSE LET x == a.val
             y == b.val
             \* the type of the result: float as soon as one operand is
             k == IF x.kind = "float" \/ y.kind = "float" THEN "float" ELSE "int"
             \* floor(n / d), d # 0
             FloorDiv(n, d) == IF d > 0 THEN n \div d ELSE (-n) \div (-d)
         IN  IF ~IsNum(x) \/ ~IsNum(y) THEN [err |-> "TypeError", val |-> NoneVal]
             ELSE IF op = "+"
             THEN [err |-> "", val |-> Rat(k, x.num * y.den + y.num * x.den, x.den * y.den)]
             ELSE IF op = "-"
             THEN [err |-> "", val |-> Rat(k, x.num * y.den - y.num * x.den, x.den * y.den)]
             ELSE IF op = "*"
             THEN [err |-> "", val |-> Rat(k, x.num * y.num, x.den * y.den)]
             ELSE IF op \in {"/", "//"} /\ y.num = 0
             THEN [err |-> "ZeroDivisionError", val |-> NoneVal]
             ELSE IF op = "/"
             THEN [err |-> "", val |-> Rat("float", x.num * y.den, x.den * y.num)]
             ELSE IF op = "//"
             THEN [err |-> "", val |-> Rat(k, FloorDiv(x.num * y.den, x.den * y.num), 1)]
             ELSE \* "**", modelled for integral exponents
                  IF y.den # 1 THEN [err |-> "Unmodelled", val |-> NoneVal]
                  ELSE IF y.num >= 0
                  THEN [err |-> "", val |-> Rat(k, Pow(x.num, y.num), Pow(x.den, y.num))]
                  ELSE IF x.num = 0 THEN [err |-> "ZeroDivisionError", val |-> NoneVal]
                  ELSE [err |-> "", val |-> Rat("float", Pow(x.den, -y.num), Pow(x.num, -y.num))]

\* -a or +a
UnOp(op, a) ==
    IF a.err # "" THEN a
    ELSE IF ~IsNum(a.val) THEN [err |-> "TypeError", val |-> NoneVal]
    ELSE IF op = "-" THEN [err |-> "", val |-> Rat(a.val.kind, -a.val.num, a.val.den)]
    ELSE a

\* a parse result: ok (syntax), r = [err, val] (evaluation), pos (next token)
ParseFail == [ok |-> FALSE, r |-> [err |-> "", val |-> NoneVal], pos |-> 0]

IsOp(ts, i, ops) == i <= Len(ts) /\ ts[i].t = "op" /\ ts[i].s \in ops

\* a parsed operand: the evaluation r of the tokens before pos
Parsed(pos, r) == [ok |-> TRUE, pos |-> pos, r |-> r]

\* left op right, once right is parsed
Combine(op, left, right) ==
    IF right.ok THEN Parsed(right.pos, BinOp(op, left.r, right.r)) ELSE ParseFail

\* op operand, once the operand is parsed
Signed(op, f) == IF f.ok THEN Parsed(f.pos, UnOp(op, f.r)) ELSE ParseFail

\* '(' expr ')', once expr is parsed
Closed(ts, e) ==
    IF e.ok /\ e.pos <= Len(ts) /\ ts[e.pos].t = "rp" THEN Parsed(e.pos + 1, e.r) ELSE ParseFail

RECURSIVE ParseExprRest(_, _), ParseTermRest(_, _), ParseFactor(_, _), ParsePowerRest(_, _)
RECURSIVE ParseAtom(_, _)

\* power: atom ['**' factor], once the atom is parsed
ParsePowerRest(ts, a) ==
    IF a.ok /\ IsOp(ts, a.pos, {"**"})
    THEN Combine("**", a, ParseFactor(ts, a.pos + 1))
    ELSE a

\* factor: ('+' | '-') factor | power
ParseFactor(ts, i) ==
    IF IsOp(ts, i, {"+", "-"})
    THEN Signed(ts[i].s, ParseFactor(ts, i + 1))
    ELSE ParsePowerRest(ts, ParseAtom(ts, i))

\* term: factor (('*' | '/' | '//') factor)*, once the first factor is parsed
ParseTermRest(ts, left) ==
    IF left.ok /\ IsOp(ts, left.pos, {"*", "/", "//"})
    THEN ParseTermRest(ts, Combine(ts[left.pos].s, left, ParseFactor(ts, left.pos + 1)))
    ELSE left

\* expr: term (('+' | '-') term)*, once the first term is parsed
ParseExprRest(ts, left) ==
    IF left.ok /\ IsOp(ts, left.pos, {"+", "-"})
    THEN ParseExprRest(ts, Combine(ts[left.pos].s, left,
                                   ParseTermRest(ts, ParseFactor(ts, left.pos + 1))))
    ELSE left

\* atom: NUMBER | NAME | '(' expr ')' | '(' ')'
ParseAtom(ts, i) ==
    IF i > Len(ts) THEN ParseFail
    ELSE IF ts[i].t = "num"
    THEN IF LiteralOk(ts[i].s)
         THEN Parsed(i + 1, [err |-> "", val |-> LiteralVal(ts[i].s)])
         ELSE ParseFail
    ELSE IF ts[i].t = "name"
    THEN \* a reserved word is never a name
         IF ts[i].s \in {"and", "or", "not", "is", "in", "if", "else", "for", "as", "from",
                         "with"}
         THEN ParseFail
         \* names eval() finds in the builtins
         ELSE IF ts[i].s \in {"sum", "abs", "max", "min", "pow", "round", "divmod", "len"}
         THEN Parsed(i + 1, [err |-> "", val |-> ObjVal("<built-in function " \o ts[i].s \o ">")])
         ELSE Parsed(i + 1, [err |-> "NameError", val |-> ObjVal(ts[i].s)])
    ELSE IF ts[i].t = "lp"
    THEN IF i < Len(ts) /\ ts[i + 1].t = "rp"
         THEN Parsed(i + 2, [err |-> "", val |-> ObjVal("()")])
         ELSE Closed(ts, ParseExprRest(ts, ParseTermRest(ts, ParseFactor(ts, i + 1))))
    ELSE ParseFail

\* the value of the whole token sequence ts, once parsed as p
Evaluated(ts, p) ==
    IF ts = <<>> \/ (\E i \in 1..Len(ts) : ts[i].t = "bad") \/ ~p.ok \/ p.pos # Len(ts) + 1
    THEN [err |-> "SyntaxError", val |-> NoneVal]
    ELSE p.r

\* the evaluation of a token sequence
EvalTokens(ts) == Evaluated(ts, ParseExprRest(ts, ParseTermRest(ts, ParseFactor(ts, 1))))

\* eval(s): [err, val]; err is "" or the name of the exception raised
PyEval(s) == EvalTokens(Tokenize(s, 1))

---------------------------------------------------------------------------
(* str() of a value, as the f-strings of the program write it              *)

RECURSIVE NatToStr(_)
NatToStr(n) ==
    IF n < 10 THEN At(Digits, n + 1)
    ELSE NatToStr(n \div 10) \o At(Digits, (n % 10) + 1)

RECURSIVE FracToStr(_, _, _)
\* the first k digits of rem/den (rem < den) after the decimal point
FracToStr(rem, den, k) ==
    IF k = 0 \/ rem = 0 THEN ""
    ELSE At(Digits, ((rem * 10) \div den) + 1) \o FracToStr((rem * 10) % den, den, k - 1)

RECURSIVE StripZeros(_)
StripZeros(s) ==
    IF Len(s) > 0 /\ At(s, Len(s)) = "0" THEN StripZeros(SubSeq(s, 1, Len(s) - 1)) ELSE s

PyStr(v) ==
    IF v.kind = "none" THEN "None"
    ELSE IF v.kind = "obj" THEN v.name
    ELSE LET sign == IF v.num < 0 THEN "-" ELSE ""
             a == Abs(v.num)
             ip == NatToStr(a \div v.den)
             fp == StripZeros(FracToStr(a % v.den, v.den, FracDigits))
         IN  IF v.kind = "int" THEN sign \o ip
             ELSE sign \o ip \o "." \o (IF fp = "" THEN "0" ELSE fp)

\* str(e) of the exception eval raised
ErrorText(r) ==
    IF r.err = "ZeroDivisionError" THEN "division by zero"
    ELSE IF r.err = "NameError" THEN "name '" \o r.val.name \o "' is not defined"
    ELSE IF r.err = "TypeError" THEN "unsupported operand type(s)"
    ELSE "invalid syntax (<string>, line 1)"

---------------------------------------------------------------------------
(* tools.py                                                                *)

CalcAllowedChars == CharSet("0123456789+-*/.() ")

\* Calculator.execute, lines 31-33: the normalisation before the check
\* str(math.pi) is 3.141592653589793
CalcNormalise(expression) ==
    ReplaceAll(ReplaceAll(expression, "^", "**"), "pi", "3.141592653589793")

\* Calculator.execute, line 37: whether the expression may be evaluated
CalcAllowed(safe_expression) ==
    \A i \in 1..Len(safe_expression) :
        \/ At(safe_expression, i) \in CalcAllowedChars
        \/ IsAlpha(At(safe_expression, i)) \/ IsDigit(At(safe_expression, i))

\* Calculator.execute: text is what it returns, evaluated whether eval was
\* lines 38-43, given r = eval(safe_expression) as [err, val]
Calculated(expression, r) ==
    IF r.err = ""
    THEN [text |-> "Calculation: " \o expression \o " = " \o PyStr(r.val),
          evaluated |-> TRUE, err |-> ""]
    ELSE [text |-> "Error calculating " \o expression \o ": " \o ErrorText(r),
          evaluated |-> TRUE, err |-> r.err]

\* Calculator.execute: the text it returns, whether eval() was called and the
\* exception eval() raised
CalculatorRun(expression) ==
    IF CalcAllowed(CalcNormalise(expression))
    THEN Calculated(expression, PyEval(CalcNormalise(expression)))
    ELSE [text |-> "Error: Invalid characters in expression",
          evaluated |-> FALSE, err |-> ""]

---------------------------------------------------------------------------
(* reflector_agent.py: the arithmetic re-check                             *)

\* the first position >= i that holds no whitespace (Len(s) + 1 if none): \s*
SkipWs(s, i) == RunEnd(s, i, WsChars) + 1

\* the end of the match of  \d+(?:\.\d+)?  at i, or 0 if there is none
NumEnd(s, i) ==
    IF i > Len(s) \/ ~IsDigit(At(s, i)) THEN 0
    ELSE LET e1 == RunEnd(s, i, DigitChars)
         IN  IF e1 + 1 < Len(s) /\ At(s, e1 + 1) = "." /\ IsDigit(At(s, e1 + 2))
             THEN RunEnd(s, e1 + 2, DigitChars)
             ELSE e1

\* the end of the match of  \s*[+\-*/^]\s*\d+(?:\.\d+)?  right after position e,
\* or 0 if there is none
OpNumEnd(s, e) ==
    LET j == SkipWs(s, e + 1)
    IN  IF j <= Len(s) /\ At(s, j) \in {"+", "-", "*", "/", "^"}
        THEN NumEnd(s, SkipWs(s, j + 1))
        ELSE 0

RECURSIVE OpNumStar(_, _)
\* the end of the greedy  (?:\s*[+\-*/^]\s*\d+(?:\.\d+)?)*  right after position e
OpNumStar(s, e) ==
    LET n == OpNumEnd(s, e) IN IF n = 0 THEN e ELSE OpNumStar(s, n)

\* pattern 1 of _extract_math_expression at i: the end of the match, or 0
ChainEnd(s, i) ==
    LET e1 == NumEnd(s, i)
        e2 == IF e1 = 0 THEN 0 ELSE OpNumEnd(s, e1)
    IN  IF e2 = 0 THEN 0 ELSE OpNumStar(s, e2)

\* the class [0-9+\-*/.^() ]
ExprChars == CharSet("0123456789+-*/.^() ")

\* after a keyword ending at position k:  \s+([0-9+\-*/.^() ]+)  - the start of
\* group 1, or 0 if there is no match.  \s+ is greedy and gives back whitespace
\* until the next character is in the class.
GroupStartAfter(s, k) ==
    LET w == RunEnd(s, k + 1, WsChars)
        starts == {g \in (k + 2)..(w + 1) : g <= Len(s) /\ At(s, g) \in ExprChars}
    IN  IF w = k \/ starts = {} THEN 0 ELSE Max(starts)

\* the end of the match of  calculate  at i (ignoring case), or 0
CalculateEnd(q, i) ==
    IF i + 8 <= Len(q) /\ Lower(SubSeq(q, i, i + 8)) = "calculate" THEN i + 8 ELSE 0

\* the end of the match of  what['s]*  at i (ignoring case), or 0
WhatEnd(q, i) ==
    IF i + 3 <= Len(q) /\ Lower(SubSeq(q, i, i + 3)) = "what"
    THEN RunEnd(q, i + 4, {"'", "s", "S"}) ELSE 0

\* the end of the keyword of pattern 2 ("calculate") or pattern 3 ("what") that
\* starts at i, or 0
KeywordEnd(kw, s, i) ==
    IF kw = "calculate" THEN CalculateEnd(s, i) ELSE WhatEnd(s, i)

\* re.search of  <keyword>\s+([0-9+\-*/.^() ]+)  ignoring case: group 1, or ""
\* if the pattern finds nothing
SearchKeywordExpr(s, kw) ==
    LET hits == {i \in 1..Len(s) :
                    KeywordEnd(kw, s, i) > 0 /\ GroupStartAfter(s, KeywordEnd(kw, s, i)) > 0}
    IN  IF hits = {} THEN ""
        ELSE LET g == GroupStartAfter(s, KeywordEnd(kw, s, Min(hits)))
             IN  SubSeq(s, g, RunEnd(s, g, ExprChars))

\* the basic validation of line 199: a digit and an operator
LooksLikeExpr(expr) ==
    /\ \E i \in 1..Len(expr) : IsDigit(At(expr, i))
    /\ \E i \in 1..Len(expr) : At(expr, i) \in {"+", "-", "*", "/", "^"}

\* pattern 1 of _extract_math_expression: group 1 of the leftmost match, or ""
SearchChain(q) ==
    LET c1 == {i \in 1..Len(q) : ChainEnd(q, i) > 0}
    IN  IF c1 = {} THEN "" ELSE SubSeq(q, Min(c1), ChainEnd(q, Min(c1)))



\* pattern 4,  ([0-9+\-*/.^() ]+)\s*=  : group 1 of the leftmost match, or ""
SearchBeforeEquals(q) ==
    LET c4 == {i \in 1..Len(q) :
                 /\ At(q, i) \in ExprChars
                 /\ LET j == SkipWs(q, RunEnd(q, i, ExprChars) + 1)
                    IN  j <= Len(q) /\ At(q, j) = "="}
    IN  IF c4 = {} THEN "" ELSE SubSeq(q, Min(c4), RunEnd(q, Min(c4), ExprChars))

\* the loop of lines 194-200 over the stripped groups of the four patterns
\* ("" where a pattern finds nothing): the first that holds a digit and an operator
FirstExpression(m1, m2, m3, m4) ==
    IF LooksLikeExpr(m1) THEN m1
    ELSE IF LooksLikeExpr(m2) THEN m2
    ELSE IF LooksLikeExpr(m3) THEN m3
    ELSE IF LooksLikeExpr(m4) THEN m4
    ELSE ""

\* ReflectorAgent._extract_math_expression; "" stands for None
ExtractMathExpression(q) ==
    FirstExpression(Strip(SearchChain(q)),
                    Strip(SearchKeywordExpr(q, "calculate")),
                    Strip(SearchKeywordExpr(q, "what")),
                    Strip(SearchBeforeEquals(q)))

RECURSIVE LastNumber(_, _, _)
\* re.findall(r'\d+(?:\.\d+)?', s)[-1], scanning from i; last is the match before i
LastNumber(s, i, last) ==
    LET starts == {j \in i..Len(s) : IsDigit(At(s, j))}
    IN  IF starts = {} THEN last
        ELSE LET j == Min(starts)
                 e == NumEnd(s, j)
             IN  LastNumber(s, e + 1, SubSeq(s, j, e))

\* ReflectorAgent._extract_result_from_response: the number, or NoneVal
ExtractResultFromResponse(response) ==
    LET n == Len(response)
        low == Lower(response)
        \* the number that follows position k after  sep*  (0: none)
        NumAfter(k, sep) == LET j == RunEnd(response, k + 1, sep) + 1
                            IN  IF NumEnd(response, j) > 0 THEN j ELSE 0
        \* 1: =\s*(number)
        h1 == {i \in 1..n : At(response, i) = "=" /\ NumAfter(i, WsChars) > 0}
        \* 2, 3: result[:\s]+(number), answer[:\s]+(number)
        AfterWord(w) ==
            {i \in 1..(n - Len(w)) :
                /\ SubSeq(low, i, i + Len(w) - 1) = w
                /\ At(response, i + Len(w)) \in WsChars \cup {":"}
                /\ NumAfter(i + Len(w) - 1, WsChars \cup {":"}) > 0}
        h2 == AfterWord("result")
        h3 == AfterWord("answer")
        \* 4: (number)$ ; $ also matches before a final newline
        end == IF n > 0 /\ At(response, n) = "\n" THEN n - 1 ELSE n
        h4 == {i \in 1..n :
                 /\ IsDigit(At(response, i))
                 /\ \/ NumEnd(response, i) = end
                    \/ RunEnd(response, i, DigitChars) = end}
        \* 5: :\s*(number)
        h5 == {i \in 1..n : At(response, i) = ":" /\ NumAfter(i, WsChars) > 0}
        At1(j) == SubSeq(response, j, NumEnd(response, j))
        text == IF h1 # {} THEN At1(NumAfter(Min(h1), WsChars))
                ELSE IF h2 # {} THEN At1(NumAfter(Min(h2) + 5, WsChars \cup {":"}))
                ELSE IF h3 # {} THEN At1(NumAfter(Min(h3) + 5, WsChars \cup {":"}))
                ELSE IF h4 # {} THEN SubSeq(response, Min(h4), end)
                ELSE IF h5 # {} THEN At1(NumAfter(Min(h5), WsChars))
                ELSE LastNumber(response, 1, "")
    \* int(text) or float(text) of the matched number, line 220
    IN  IF text = "" THEN NoneVal ELSE LiteralVal(text)

\* a missing math_validation (None)
NoMathValidation ==
    [present |-> FALSE, is_correct |-> FALSE, expected_result |-> NoneVal,
     provided_result |-> NoneVal, expression |-> ""]

\* the comparison of lines 164-169, expected and provided both present
ResultsAgree(expected, provided) ==
    IF expected.kind = "float" \/ provided.kind = "float"
    THEN NumLess(AbsDiff(expected, provided), Rat("float", 1, 100))
    ELSE expected = provided

\* lines 153-154
SafeExpr(expression) ==
    ReplaceAll(ReplaceAll(ReplaceAll(expression, "^", "**"), "x", "*"), "X", "*")

\* lines 157-177, given r = eval(safe_expr) as [err, val] and the number
\* provided, read from the response
ComparedResult(expression, r, provided) ==
    IF r.err # ""
    THEN \* SyntaxError, ValueError, ZeroDivisionError (line 171) or any other (line 175)
         [NoMathValidation EXCEPT !.present = TRUE, !.expression = expression,
                                  !.is_correct = TRUE]
    ELSE IF provided.kind = "none"
    THEN [present |-> TRUE, is_correct |-> FALSE, expected_result |-> r.val,
          provided_result |-> NoneVal, expression |-> expression]
    ELSE IF ~IsNum(r.val) /\ provided.kind = "float"
    THEN \* abs(expected - provided) raises TypeError: the handler of line 175
         [present |-> TRUE, is_correct |-> TRUE, expected_result |-> r.val,
          provided_result |-> provided, expression |-> expression]
    ELSE [present |-> TRUE, is_correct |-> ResultsAgree(r.val, provided),
          expected_result |-> r.val, provided_result |-> provided,
          expression |-> expression]

\* lines 146-177, given the expression extracted from the query ("" for None)
\* and safe_expr made of it
RecheckExpression(expression, safe_expr, response) ==
    IF expression = ""
    THEN [NoMathValidation EXCEPT !.present = TRUE]
    ELSE IF ~(\A i \in 1..Len(safe_expr) : At(safe_expr, i) \in CalcAllowedChars)
    THEN [NoMathValidation EXCEPT !.present = TRUE, !.expression = expression]
    ELSE ComparedResult(expression, PyEval(safe_expr), ExtractResultFromResponse(response))

\* lines 146-177, given the expression extracted from the query ("" for None)
RecheckExtracted(expression, response) ==
    RecheckExpression(expression, SafeExpr(expression), response)

\* ReflectorAgent._validate_mathematical_answer
ValidateMathematicalAnswer(q, response) ==
    RecheckExtracted(ExtractMathExpression(q), response)

---------------------------------------------------------------------------
(* reflector_agent.py: the three analyses                                  *)

RECURSIVE Join(_, _)
\* sep.join(parts)
Join(parts, sep) ==
    IF parts = <<>> THEN ""
    ELSE IF Len(parts) = 1 THEN parts[1]
    ELSE parts[1] \o sep \o Join(Tail(parts), sep)

\* re.search(r'\d+', response), line 91
HasNumber(response) == \E i \in 1..Len(response) : IsDigit(At(response, i))

\* the answer type of lines 88, 108 and 116
AnswerType(q) ==
    IF ContainsAny(Lower(q), {"calculate", "math", "+", "-", "*", "/", "="})
    THEN "mathematical"
    ELSE IF ContainsAny(Lower(q), {"weather", "temperature", "climate"}) THEN "weather"
    ELSE IF ContainsAny(Lower(q), {"what", "who", "where", "when", "why", "how"})
    THEN "informational"
    ELSE "unknown"

\* line 110
HasWeatherWords(response) ==
    ContainsAny(Lower(response),
                {"temperature", "degrees", "weather", "sunny", "cloudy", "rain"})

\* the issues appended at lines 99-121
TypeIssues(answer_type, response, mv) ==
    IF answer_type = "mathematical"
    THEN IF ~HasNumber(response) THEN <<"Mathematical query but no numerical answer found">>
         ELSE IF mv.is_correct THEN <<>>
         ELSE IF mv.expected_result.kind # "none"
         THEN <<"Mathematical error: Expected " \o PyStr(mv.expected_result)
                  \o ", got " \o PyStr(mv.provided_result)>>
         ELSE <<"Could not verify mathematical calculation">>
    ELSE IF answer_type = "weather"
    THEN IF HasWeatherWords(response) THEN <<>>
         ELSE <<"Weather query but no weather information in response">>
    ELSE IF answer_type = "informational" /\ ~(Len(response) > 30)
    THEN <<"Informational query but response seems too brief">>
    ELSE <<>>

\* the issues appended at lines 124-127
LengthIssues(response) ==
    IF Len(response) < 10 THEN <<"Response appears too short">>
    ELSE IF Len(response) > 500 THEN <<"Response might be unnecessarily long">>
    ELSE <<>>

\* the analysis of lines 74-129, given the answer type and math_validation
Analysis(answer_type, response, mv) ==
    [answer_type |-> answer_type,
     contains_calculation |-> answer_type = "mathematical" /\ HasNumber(response),
     contains_factual_info |-> \/ answer_type = "weather" /\ HasWeatherWords(response)
                               \/ answer_type = "informational" /\ Len(response) > 30,
     response_length |-> Len(response),
     specific_patterns |->
         IF answer_type = "mathematical" /\ HasNumber(response) /\ mv.is_correct
         THEN <<"Mathematical calculation verified as correct: "
                  \o PyStr(mv.expected_result)>>
         ELSE IF answer_type = "weather" /\ HasWeatherWords(response)
         THEN <<"Contains weather-related information">>
         ELSE <<>>,
     potential_issues |-> TypeIssues(answer_type, response, mv) \o LengthIssues(response),
     math_validation |-> mv]

\* ReflectorAgent._analyze_answer_content
AnalyzeAnswerContent(q, response) ==
    Analysis(AnswerType(q), response,
             IF AnswerType(q) = "mathematical" /\ HasNumber(response)
             THEN ValidateMathematicalAnswer(q, response)
             ELSE NoMathValidation)

\* ReflectorAgent._determine_query_type
DetermineQueryType(q) ==
    IF ContainsAny(Lower(q), {"calculate", "math", "+", "-", "*", "/"}) THEN "mathematical"
    ELSE IF ContainsAny(Lower(q), {"weather", "temperature"}) THEN "weather"
    ELSE "informational"

CriticalSteps == <<"Query Analysis", "Tool Selection", "Tool Execution">>

\* the steps of critical_steps that no step name of the trace contains
MissingSteps(steps) ==
    SelectSeq(CriticalSteps,
              LAMBDA c : ~\E i \in 1..Len(steps) :
                              Contains(Lower(steps[i].step), Lower(c)))

RECURSIVE StepIssues(_, _)
\* the "Very minimal content" findings for steps i.. of the trace
StepIssues(steps, i) ==
    IF i > Len(steps) THEN <<>>
    ELSE (IF Len(steps[i].content) < 5
          THEN <<"Step " \o NatToStr(i) \o " (" \o steps[i].step
                   \o "): Very minimal content">>
          ELSE <<>>) \o StepIssues(steps, i + 1)

\* int(completion_ratio * 100), lines 275-284
CompletenessScore(steps) ==
    LET present == Len(CriticalSteps) - Len(MissingSteps(steps))
        base == (present * 100) \div Len(CriticalSteps)
    IN  IF Len(steps) >= 3 /\ base < 80 THEN 80 ELSE base

\* a validation of the reasoning chain that labels by the score alone
ValidateReasoningChainByScoreAlone(steps, original_query) ==
    LET score == CompletenessScore(steps)
    IN  [step_count |-> Len(steps),
         logical_consistency |-> score >= 40,
         completeness_score |-> score,
         step_issues |-> StepIssues(steps, 1),
         missing_steps |-> MissingSteps(steps),
         reasoning_quality |-> IF score >= 80 THEN "Excellent"
                               ELSE IF score >= 60 THEN "Good"
                               ELSE IF score >= 40 THEN "Acceptable"
                               ELSE "Poor"]

\* ReflectorAgent._validate_reasoning_chain
ValidateReasoningChain(steps, original_query) ==
    LET score == CompletenessScore(steps)
        issues == StepIssues(steps, 1)
    IN  [step_count |-> Len(steps),
         logical_consistency |-> score >= 40,
         completeness_score |-> score,
         step_issues |-> issues,
         missing_steps |-> MissingSteps(steps),
         reasoning_quality |-> IF score >= 80 /\ issues = <<>> THEN "Excellent"
                               ELSE IF score >= 60 THEN "Good"
                               ELSE IF score >= 40 THEN "Acceptable"
                               ELSE "Poor"]

ToolNames == {"calculator", "weather", "search", "news"}

\* any(tool in str(reasoning_steps).lower() for tool in [...]), line 382
ToolMentioned(steps) ==
    \E i \in 1..Len(steps) :
        \/ ContainsAny(Lower(steps[i].step), ToolNames)
        \/ ContainsAny(Lower(steps[i].content), ToolNames)

\* ReflectorAgent._ai_powered_validation, lines 334-386: the findings for and
\* against the response, and the confidence before the decision
AiFindings(q, response, steps) ==
    LET query_lower == Lower(q)
        response_lower == Lower(response)
        hasNumber == \E i \in 1..Len(response) : IsDigit(At(response, i))
        \* the category: [good, text, confidence]
        cat ==
            IF ContainsAny(query_lower, {"calculate", "math", "+", "-", "*", "/"})
            THEN IF hasNumber
                 THEN [good |-> TRUE, text |-> "Contains numerical result for math query", c |-> 85]
                 ELSE [good |-> FALSE, text |-> "Mathematical query missing numerical answer", c |-> 30]
            ELSE IF ContainsAny(query_lower, {"weather", "temperature", "climate"})
            THEN IF ContainsAny(response_lower, {"temperature", "degrees", "weather", "sunny",
                                                 "cloudy", "rain", "celsius", "fahrenheit"})
                 THEN [good |-> TRUE, text |-> "Contains weather-related information", c |-> 80]
                 ELSE [good |-> FALSE, text |-> "Weather query lacks weather information", c |-> 40]
            ELSE IF ContainsAny(query_lower, {"what", "who", "where", "when", "why", "how",
                                              "explain", "define"})
            THEN IF Len(response) > 20
                 THEN [good |-> TRUE, text |-> "Provides substantial informational content", c |-> 75]
                 ELSE [good |-> FALSE, text |-> "Informational query has very brief response", c |-> 50]
            ELSE [good |-> TRUE, text |-> "Response addresses the query appropriately", c |-> 70]
        tool_mentioned == ToolMentioned(steps)
    IN  [issues_found |->
            (IF cat.good THEN <<>> ELSE <<cat.text>>)
            \o (IF Len(response) < 10 THEN <<"Response appears too brief">> ELSE <<>>),
         positive_indicators |->
            (IF cat.good THEN <<cat.text>> ELSE <<>>)
            \o (IF Len(response) > 100 THEN <<"Detailed response provided">> ELSE <<>>)
            \o (IF tool_mentioned THEN <<"Appropriate tool usage detected in reasoning">>
                ELSE <<>>),
         ai_confidence |-> cat.c - (IF Len(response) < 10 THEN 20 ELSE 0)
                                 + (IF tool_mentioned THEN 5 ELSE 0)]

\* ReflectorAgent._ai_powered_validation
AiPoweredValidation(q, response, steps) ==
    LET found == AiFindings(q, response, steps)
        incorrect == /\ found.issues_found # <<>>
                     /\ Len(found.issues_found) >= Len(found.positive_indicators)
    IN  [ai_confidence |-> IF incorrect THEN Max({found.ai_confidence - 20, 20})
                           ELSE Min({found.ai_confidence + 10, 90}),
         ai_decision |-> IF incorrect THEN "incorrect" ELSE "correct",
         ai_reasoning |-> IF incorrect
                          THEN "Issues identified: " \o Join(found.issues_found, ", ")
                          ELSE "Validation passed: " \o Join(found.positive_indicators, ", "),
         model_used |-> "Rule-Based Validator",
         validation_successful |-> TRUE]

---------------------------------------------------------------------------
(* reflector_agent.py: the final decision                                  *)

\* a decision that takes only a failed arithmetic re-check for a major issue
MajorIssuesOfMathOnly(answer_analysis) ==
    IF answer_analysis.math_validation.present
       /\ ~answer_analysis.math_validation.is_correct
    THEN <<"[x] Mathematical error">>
    ELSE <<>>

\* a decision that starts from the default confidence whatever the re-check found
BaseConfidenceDefaultOnly(answer_analysis) ==
    IF answer_analysis.math_validation.present
       /\ ~answer_analysis.math_validation.is_correct
    THEN 30 ELSE 85

\* a decision that leaves out the penalty of line 469
FinalConfidenceWithoutPenalty(confidence, major_issues) == confidence

\* the major issues of lines 414-441, in the order they are appended
MajorIssues(answer_analysis) ==
    LET mv == answer_analysis.math_validation
    IN  (IF mv.present /\ ~mv.is_correct
         THEN <<"[x] Mathematical error: Expected " \o PyStr(mv.expected_result)
                  \o ", got " \o PyStr(mv.provided_result)>>
         ELSE <<>>)
        \o (IF answer_analysis.answer_type = "mathematical"
               /\ ~answer_analysis.contains_calculation
            THEN <<"Mathematical query missing numerical answer">>
            ELSE IF answer_analysis.answer_type = "weather"
                    /\ ~answer_analysis.contains_factual_info
            THEN <<"Weather query missing weather information">>
            ELSE <<>>)

\* line 440 applies len() to the integer response_length: a TypeError, whenever
\* the elif is evaluated
DecisionRaises(answer_analysis) ==
    /\ answer_analysis.answer_type = "informational"
    /\ ~answer_analysis.contains_factual_info

\* the confidence before the nudges: lines 406, 419, 422
BaseConfidence(answer_analysis) ==
    LET mv == answer_analysis.math_validation
    IN  IF ~mv.present THEN 85 ELSE IF mv.is_correct THEN 90 ELSE 30

\* the nudge of the heuristic validator's verdict: lines 454-462
NudgedConfidence(confidence, ai_validation) ==
    IF ~ai_validation.validation_successful THEN confidence
    ELSE IF ai_validation.ai_decision = "correct" THEN Min({confidence + 5, 95})
    ELSE IF ai_validation.ai_decision = "incorrect" THEN Max({confidence - 15, 40})
    ELSE confidence

\* the confidence of the final decision: lines 467-474
FinalConfidence(confidence, major_issues) ==
    IF major_issues # <<>> THEN Max({confidence - 30, 20}) ELSE confidence

\* the minor suggestions of lines 477-486
MinorSuggestions(answer_analysis) ==
    LET filtered == SelectSeq(answer_analysis.potential_issues,
                              LAMBDA issue : ~Contains(issue, "lacks clear result format")
                                             /\ ~Contains(issue, "too brief"))
    IN  SubSeq(filtered, 1, Min({2, Len(filtered)}))

\* the reasoning_parts of lines 411-464, in order
ReasoningParts(answer_analysis, reasoning_validation, ai_validation) ==
    LET mv == answer_analysis.math_validation
        score == reasoning_validation.completeness_score
    IN  (IF mv.present /\ mv.is_correct
         THEN <<"[ok] Mathematical calculation verified as correct">> ELSE <<>>)
        \o (IF answer_analysis.answer_type = "mathematical"
               /\ answer_analysis.contains_calculation
            THEN <<"Contains appropriate numerical calculation for math query">>
            ELSE IF answer_analysis.answer_type = "weather"
                    /\ answer_analysis.contains_factual_info
            THEN <<"Contains relevant weather information">>
            ELSE IF answer_analysis.answer_type = "informational"
                    /\ answer_analysis.contains_factual_info
            THEN <<"Contains appropriate factual information">>
            ELSE <<>>)
        \o <<(IF score >= 80 THEN "Strong" ELSE IF score >= 60 THEN "Adequate" ELSE "Basic")
               \o " reasoning process (" \o NatToStr(score) \o "%)">>
        \o (IF ~ai_validation.validation_successful THEN <<"AI validation unavailable">>
            ELSE IF ai_validation.ai_decision = "correct"
            THEN <<"AI model confirms answer correctness">>
            ELSE IF ai_validation.ai_decision = "incorrect"
            THEN <<"AI model has concerns about the answer">>
            ELSE <<>>)

\* ReflectorAgent._make_validation_decision; raised names the exception, if any
MakeValidationDecision(answer_analysis, reasoning_validation, ai_validation) ==
    LET major_issues == MajorIssues(answer_analysis)
        confidence == FinalConfidence(
                          NudgedConfidence(BaseConfidence(answer_analysis), ai_validation),
                          major_issues)
    IN  IF DecisionRaises(answer_analysis)
        THEN [raised |-> "TypeError", is_correct |-> FALSE, confidence |-> 0,
              reasoning |-> "", suggestions |-> <<>>]
        ELSE IF major_issues # <<>>
        THEN [raised |-> "", is_correct |-> FALSE, confidence |-> confidence,
              reasoning |-> "[x] ANSWER FLAGGED: " \o Join(major_issues, " | "),
              suggestions |-> major_issues]
        ELSE [raised |-> "", is_correct |-> TRUE, confidence |-> confidence,
              reasoning |-> "[ok] ANSWER VALIDATED: "
                  \o Join(ReasoningParts(answer_analysis, reasoning_validation,
                                         ai_validation), " | "),
              suggestions |-> MinorSuggestions(answer_analysis)]

\* the report of validate_response with a confidence that depends on the clock
ReportedByClock(original_query, mrkl_response, now, answer_analysis, reasoning_validation, ai_validation, final_decision) ==
    [raised |-> final_decision.raised,
     report |->
        [timestamp |-> now,
         original_query |-> original_query,
         mrkl_response |-> mrkl_response,
         validation_decision |-> final_decision.is_correct,
         confidence_level |-> final_decision.confidence - (IF now = "2025-01-01 10:00:00" THEN 0 ELSE 1),
         validation_reasoning |-> final_decision.reasoning,
         answer_analysis |-> answer_analysis,
         reasoning_validation |-> reasoning_validation,
         ai_validation |-> ai_validation,
         improvement_suggestions |-> final_decision.suggestions,
         validation_status |-> IF final_decision.is_correct THEN "CORRECT" ELSE "INCORRECT"]]

\* the report built at lines 52-64 of ReflectorAgent.validate_response, and the
\* exception that leaves the method (raised, "" for none)
Reported(original_query, mrkl_response, now, answer_analysis, reasoning_validation, ai_validation, final_decision) ==
    [raised |-> final_decision.raised,
     report |->
        [timestamp |-> now,
         original_query |-> original_query,
         mrkl_response |-> mrkl_response,
         validation_decision |-> final_decision.is_correct,
         confidence_level |-> final_decision.confidence,
         validation_reasoning |-> final_decision.reasoning,
         answer_analysis |-> answer_analysis,
         reasoning_validation |-> reasoning_validation,
         ai_validation |-> ai_validation,
         improvement_suggestions |-> final_decision.suggestions,
         validation_status |-> IF final_decision.is_correct THEN "CORRECT" ELSE "INCORRECT"]]

\* steps 4 and 5 of validate_response (lines 49-64), given the three analyses
Decided(original_query, mrkl_response, now, answer_analysis, reasoning_validation, ai_validation) ==
    Reported(original_query, mrkl_response, now, answer_analysis, reasoning_validation,
             ai_validation,
             MakeValidationDecision(answer_analysis, reasoning_validation, ai_validation))

\* ReflectorAgent.validate_response: the exception that leaves it (raised, ""
\* for none) or the report it returns
ValidateResponse(original_query, mrkl_response, steps, now) ==
    Decided(original_query, mrkl_response, now,
            AnalyzeAnswerContent(original_query, mrkl_response),
            ValidateReasoningChain(steps, original_query),
            AiPoweredValidation(original_query, mrkl_response, steps))

---------------------------------------------------------------------------
(* agent.py: the Input Validator                                           *)

CommonWords ==
    {"the", "and", "is", "in", "to", "of", "a", "that", "it", "with", "for", "as", "was",
     "on", "are", "you", "this", "be", "at", "have", "or", "not", "from", "by", "they",
     "we", "say", "her", "she", "an", "each", "which", "do", "how", "their", "if", "will",
     "up", "other", "about", "out", "many", "then", "them", "these", "so", "some", "what",
     "would", "make", "like", "into", "time", "has", "two", "more", "go", "no", "way",
     "could", "my", "than", "first", "been", "call", "who", "oil", "its", "now", "find",
     "long", "down", "day", "did", "get", "come", "made", "may", "part", "weather",
     "calculate", "news", "search", "tell", "me", "when", "where", "why", "university",
     "heriot", "watt"}

\* the number of positions of s whose character is in cls
CountIn(s, cls) == Cardinality({i \in 1..Len(s) : At(s, i) \in cls})

\* rule 3: some character makes up 30% or more of the query
MashedFewChars(c) ==
    /\ Len(c) > 10
    /\ Cardinality(CharSet(c)) <= 4
    /\ \E ch \in CharSet(c) : CountIn(c, {ch}) * 10 >= Len(c) * 3

\* rule 4: re.search(r'(.{1,3})\1{4,}'): a unit of 1 to 3 characters, 5 times in a row
RepeatedUnit(c) ==
    \E i \in 1..Len(c), l \in 1..3 :
        /\ i + 5 * l - 1 <= Len(c)
        /\ ~Contains(SubSeq(c, i, i + l - 1), "\n")
        /\ \A k \in 1..4 : SubSeq(c, i + k * l, i + k * l + l - 1) = SubSeq(c, i, i + l - 1)

\* rule 5: the letters of the query have no vowel, or over 8 consonants per vowel
ConsonantHeavy(c) ==
    LET letters == CountIn(c, LowerChars \cup UpperChars)
        vowel_count == CountIn(c, CharSet("aeiou"))
        consonant_count == CountIn(c, CharSet("bcdfghjklmnpqrstvwxyz"))
    IN  /\ letters > 5
        /\ \/ vowel_count = 0 /\ consonant_count > 5
           \/ vowel_count > 0 /\ consonant_count > 8 * vowel_count

\* rule 6: the query is, to more than 70%, its first 2 to 5 characters tiled
TiledPrefix(c) ==
    /\ Len(c) > 10
    /\ \E i \in 2..5 :
         LET repetitions == Len(c) \div i
             similarity == Cardinality({k \in 1..(repetitions * i) :
                                          At(c, k) = At(c, ((k - 1) % i) + 1)})
         IN  repetitions >= 3 /\ similarity * 10 > Len(c) * 7

\* rule 7: only characters of one of the random_patterns classes
KeyboardRow(c) ==
    /\ Len(c) > 8
    /\ \E row \in {CharSet("yh"), CharSet("qwerty"), CharSet("asdfgh"), CharSet("zxcvbn")} :
           \A i \in 1..Len(c) : At(c, i) \in row

\* rule 8: the words of re.split(r'[^a-zA-Z]', c) that are not empty
PotentialWords(c) ==
    {SubSeq(c, i, RunEnd(c, i, LowerChars \cup UpperChars)) :
        i \in {j \in 1..Len(c) : IsAlpha(At(c, j)) /\ (j = 1 \/ ~IsAlpha(At(c, j - 1)))}}

\* rule 8: the words that count as valid
ValidWords(c) ==
    {w \in PotentialWords(c) : Len(w) >= 3 /\ (w \in CommonWords \/ Len(w) >= 4)}

\* FreeLLMAgent._is_meaningless_query
IsMeaninglessQuery(q) ==
    LET cleaned_query == Lower(Strip(q))
    IN  \/ Len(cleaned_query) < 3
        \/ Cardinality(CharSet(cleaned_query)) <= 2 /\ Len(cleaned_query) > 5
        \/ MashedFewChars(cleaned_query)
        \/ RepeatedUnit(cleaned_query)
        \/ ConsonantHeavy(cleaned_query)
        \/ TiledPrefix(cleaned_query)
        \/ KeyboardRow(cleaned_query)
        \/ Len(cleaned_query) > 10 /\ ValidWords(cleaned_query) = {}

---------------------------------------------------------------------------
(* agent.py: the Tool Router and the Parameter Extractor                   *)

Step(name, content) == [step |-> name, content |-> content]

\* the selection of think() with the weather category tried before the
\* arithmetic one
SelectToolWeatherFirst(q) ==
    IF ContainsAny(Lower(q), {"weather", "temperature", "rain", "sunny",
                              "climate", "forecast", "humidity", "wind"})
    THEN [tool |-> "weather",
          reasoning |-> "Detected weather-related query - selecting Weather tool"]
    ELSE IF ContainsAny(Lower(q), {"calculate", "math", "+", "-", "*", "/", "=", "sum",
                                   "multiply", "divide", "compute", "formula"})
    THEN [tool |-> "calculator",
          reasoning |-> "Detected mathematical operations - selecting Calculator tool"]
    ELSE IF ContainsAny(Lower(q), {"news", "latest", "recent", "current events",
                                   "breaking", "today", "yesterday", "happening"})
    THEN [tool |-> "news",
          reasoning |-> "Detected news/current events request - selecting News tool"]
    ELSE [tool |-> "search",
          reasoning |-> "General query detected - defaulting to Search tool for comprehensive information"]

\* FreeLLMAgent.think, lines 59-85: the tool and the justification of the first
\* matching category
SelectTool(q) ==
    LET query_lower == Lower(q)
    IN  IF ContainsAny(query_lower, {"calculate", "math", "+", "-", "*", "/", "=", "sum",
                                     "multiply", "divide", "compute", "formula"})
        THEN [tool |-> "calculator",
              reasoning |-> "Detected mathematical operations - selecting Calculator tool"]
        ELSE IF ContainsAny(query_lower, {"weather", "temperature", "rain", "sunny",
                                          "climate", "forecast", "humidity", "wind"})
        THEN [tool |-> "weather",
              reasoning |-> "Detected weather-related query - selecting Weather tool"]
        ELSE IF ContainsAny(query_lower, {"news", "latest", "recent", "current events",
                                          "breaking", "today", "yesterday", "happening"})
        THEN [tool |-> "news",
              reasoning |-> "Detected news/current events request - selecting News tool"]
        ELSE IF ContainsAny(query_lower, {"what is", "tell me about", "define", "explain",
                                          "information", "who is", "when did", "where is",
                                          "how does"})
        THEN [tool |-> "search",
              reasoning |-> "Detected general information request - selecting Search tool"]
        ELSE [tool |-> "search",
              reasoning |-> "General query detected - defaulting to Search tool for comprehensive information"]

\* a think() that rejects without a step of its own
ThinkWithoutValidationStep(q) ==
    LET analysis == Step("Query Analysis", "Analyzing user query: '" \o q \o "'")
    IN  IF IsMeaninglessQuery(q)
        THEN [tool |-> "invalid", steps |-> <<analysis>>]
        ELSE [tool |-> SelectTool(q).tool,
              steps |-> <<analysis, Step("Tool Selection", SelectTool(q).reasoning)>>]

\* FreeLLMAgent.think: the tool it returns and the trace it leaves
Think(q) ==
    LET analysis == Step("Query Analysis", "Analyzing user query: '" \o q \o "'")
    IN  IF IsMeaninglessQuery(q)
        THEN [tool |-> "invalid",
              steps |-> <<analysis,
                          Step("Input Validation",
                               "Detected meaningless or random input - cannot process")>>]
        ELSE [tool |-> SelectTool(q).tool,
              steps |-> <<analysis, Step("Tool Selection", SelectTool(q).reasoning)>>]

RECURSIVE Runs(_, _, _)
\* re.findall of  [cls]+  from position i: the maximal runs of class characters
Runs(s, i, cls) ==
    LET starts == {j \in i..Len(s) : At(s, j) \in cls}
    IN  IF starts = {} THEN <<>>
        ELSE LET j == Min(starts)
                 e == RunEnd(s, j, cls)
             IN  <<SubSeq(s, j, e)>> \o Runs(s, e + 1, cls)

\* max(matches, key=len): the first of the longest
Longest(matches) ==
    matches[Min({i \in 1..Len(matches) : \A k \in 1..Len(matches) :
                     Len(matches[k]) <= Len(matches[i])})]

RECURSIVE FindNumbers(_, _)
\* re.findall(r'\d+\.?\d*', s) from position i
FindNumbers(s, i) ==
    LET starts == {j \in i..Len(s) : IsDigit(At(s, j))}
    IN  IF starts = {} THEN <<>>
        ELSE LET j == Min(starts)
                 e1 == RunEnd(s, j, DigitChars)
                 e2 == IF e1 < Len(s) /\ At(s, e1 + 1) = "."
                       THEN RunEnd(s, e1 + 2, DigitChars) ELSE e1
             IN  <<SubSeq(s, j, e2)>> \o FindNumbers(s, e2 + 1)

\* extract_parameters, tool calculator, reduced to its fallback
ExtractCalculatorRawQuery(q) == q

\* extract_parameters, tool calculator
ExtractCalculator(q) ==
    \* math_pattern, the class [\d\+\-\*\/\(\)\.\s\^]
    LET matches == Runs(q, 1, CharSet("0123456789+-*/().^") \cup WsChars)
        expr == IF matches = <<>> THEN "" ELSE Strip(Longest(matches))
        numbers == FindNumbers(q, 1)
    IN  IF \E i \in 1..Len(expr) : At(expr, i) \in OpChars THEN expr
        ELSE IF Contains(Lower(q), "circle") /\ Contains(Lower(q), "radius") /\ Contains(q, "5")
        THEN "3.14159 * 5 * 5"
        ELSE IF Len(numbers) >= 2 /\ (Contains(q, "multiply") \/ Contains(q, "*"))
        THEN numbers[1] \o " * " \o numbers[2]
        ELSE IF Len(numbers) >= 2 /\ (Contains(q, "add") \/ Contains(q, "+"))
        THEN numbers[1] \o " + " \o numbers[2]
        ELSE q

RECURSIVE Title(_)
\* str.title(): a letter is uppercase after a non-letter, lowercase after a letter
Title(s) ==
    IF s = "" THEN ""
    ELSE LET n == Len(s)
             c == At(s, n)
         IN  Title(SubSeq(s, 1, n - 1))
             \o (IF n > 1 /\ IsAlpha(At(s, n - 1)) THEN LowerChar(c) ELSE UpperChar(c))

RECURSIVE Upper(_)
Upper(s) == IF s = "" THEN "" ELSE Upper(SubSeq(s, 1, Len(s) - 1)) \o UpperChar(At(s, Len(s)))

RECURSIVE Split(_, _)
\* str.split() from position i: the maximal runs of non-whitespace
Split(s, i) ==
    LET starts == {j \in i..Len(s) : At(s, j) \notin WsChars}
    IN  IF starts = {} THEN <<>>
        ELSE LET j == Min(starts)
                 stops == {k \in j..Len(s) : At(s, k) \in WsChars}
                 e == IF stops = {} THEN Len(s) ELSE Min(stops) - 1
             IN  <<SubSeq(s, j, e)>> \o Split(s, e + 1)

Locations ==
    <<"london", "paris", "tokyo", "new york", "mumbai", "berlin", "delhi", "sydney",
      "toronto", "dubai", "abu dhabi", "uae", "united arab emirates", "india", "usa", "uk",
      "canada", "germany", "france", "japan", "australia", "singapore", "hong kong",
      "bangkok", "moscow", "rome", "madrid", "amsterdam", "zurich", "istanbul", "cairo",
      "riyadh">>

\* the lazy group ([a-zA-Z\s]+?) from position g, ended where what follows the
\* group matches (at a position of ends): the end of the group, or 0 if there
\* is no match
LazyGroupEnd(s, g, ends) ==
    LET stops == {e \in g..RunEnd(s, g, LowerChars \cup UpperChars \cup WsChars) :
                     e + 1 \in ends}
    IN  IF stops = {} THEN 0 ELSE Min(stops)

StartsWithAt(s, i, w) == i + Len(w) - 1 <= Len(s) /\ SubSeq(s, i, i + Len(w) - 1) = w

\* the positions where  (?:\?|$|,)  matches
LocationEndings(s) ==
    {p \in 1..(Len(s) + 1) : \/ p > Len(s)
                             \/ At(s, p) \in {"?", ","}
                             \/ p = Len(s) /\ At(s, p) = "\n"}

\* the position after the prefix (one of prefixes) that starts at i, or 0
PrefixEnd(s, i, prefixes) ==
    LET found == {w \in prefixes : StartsWithAt(s, i, w)}
    IN  IF found = {} THEN 0 ELSE i + Len(CHOOSE w \in found : TRUE)

\* re.search of  <one of prefixes>([a-zA-Z\s]+?)(?:\?|$|,)  : group 1, or ""
SearchLocationAfter(s, prefixes) ==
    LET hits == {i \in 1..Len(s) :
                    /\ PrefixEnd(s, i, prefixes) > 0
                    /\ LazyGroupEnd(s, PrefixEnd(s, i, prefixes), LocationEndings(s)) > 0}
    IN  IF hits = {} THEN ""
        ELSE SubSeq(s, PrefixEnd(s, Min(hits), prefixes),
                    LazyGroupEnd(s, PrefixEnd(s, Min(hits), prefixes), LocationEndings(s)))

\* the positions where  ' weather'  matches
WeatherWordStarts(s) == {p \in 1..Len(s) : StartsWithAt(s, p, " weather")}

\* re.search of  ([a-zA-Z\s]+?) weather  : group 1, or ""
SearchLocationBefore(s) ==
    LET hits == {i \in 1..Len(s) : LazyGroupEnd(s, i, WeatherWordStarts(s)) > 0}
    IN  IF hits = {} THEN ""
        ELSE SubSeq(s, Min(hits), LazyGroupEnd(s, Min(hits), WeatherWordStarts(s)))

\* location.strip(), then re.sub(r'^(the|a|an)\s+', '', location)
CleanLocation(group) ==
    LET location == Strip(group)
        arts == {w \in {"the", "a", "an"} :
                    /\ StartsWithAt(location, 1, w)
                    /\ Len(location) > Len(w)
                    /\ At(location, Len(w) + 1) \in WsChars}
    IN  IF arts = {} THEN location
        ELSE LET w == CHOOSE w \in arts : TRUE
             IN  From(location, SkipWs(location, Len(w) + 1))

LocationUsable(location) ==
    Len(location) > 1 /\ location \notin {"weather", "temperature", "forecast"}

CityOf(location) ==
    IF location \in {"uae", "united arab emirates"} THEN "Dubai" ELSE Title(location)

\* extract_parameters, tool weather
ExtractWeather(q) ==
    LET query_lower == Lower(q)
        listed == {i \in 1..Len(Locations) : Contains(query_lower, Locations[i])}
        l1 == CleanLocation(SearchLocationAfter(query_lower, {"weather in ", "weather of "}))
        l2 == CleanLocation(SearchLocationAfter(query_lower, {"in ", "of "}))
        l3 == CleanLocation(SearchLocationBefore(query_lower))
        words == Split(q, 1)
        proper == {i \in 1..Len(words) :
                     /\ At(words[i], 1) \in UpperChars
                     /\ Len(words[i]) > 2
                     /\ Lower(words[i]) \notin {"weather", "what", "is", "the"}}
    IN  IF listed # {} THEN CityOf(Locations[Min(listed)])
        ELSE IF LocationUsable(l1) THEN CityOf(l1)
        ELSE IF LocationUsable(l2) THEN CityOf(l2)
        ELSE IF LocationUsable(l3) THEN CityOf(l3)
        ELSE IF proper # {}
        THEN IF Upper(words[Min(proper)]) = "UAE" THEN "Dubai" ELSE words[Min(proper)]
        ELSE "London"

\* ' '.join(words[:n]) of the words of the lower-cased query that are no stop words
TopicWords(q, stop_words, n) ==
    LET words == SelectSeq(Split(Lower(q), 1), LAMBDA w : w \notin stop_words)
    IN  Join(SubSeq(words, 1, Min({n, Len(words)})), " ")

\* FreeLLMAgent.extract_parameters
ExtractParameters(q, tool_name) ==
    IF tool_name = "calculator" THEN ExtractCalculator(q)
    ELSE IF tool_name = "weather" THEN ExtractWeather(q)
    ELSE IF tool_name = "search"
    THEN TopicWords(q, {"what", "is", "tell", "me", "about", "explain", "define", "the"}, 3)
    ELSE IF tool_name = "news"
    THEN TopicWords(q, {"get", "me", "the", "some", "find"}, 4)
    ELSE q

---------------------------------------------------------------------------
(* tools.py: the Weather, Search and News adapters.  env is what the world *)
(* outside the program answers during one query: the keys configured, the  *)
(* outcome of each request and the payloads returned.                      *)

\* the degree sign, outside the modelled alphabet: one character that no
\* pattern of the program names
DegreeSign == "~"

\* Weather._get_free_weather
GetFreeWeather(e, city) ==
    IF e.weather_http = "exception"
    THEN "Weather service temporarily unavailable for " \o city
    ELSE IF e.weather_http = "200"
    THEN "Current weather in " \o Title(city) \o ": " \o Strip(e.wttr_text)
    ELSE "Could not get weather for " \o city

\* Weather.execute
WeatherExecute(e, city) ==
    IF ~e.openweather_key THEN GetFreeWeather(e, city)
    ELSE IF e.weather_http = "exception"
    THEN "Error getting weather for " \o city \o ": " \o e.http_error
    ELSE IF e.weather_http = "200"
    THEN "Current weather in " \o Title(city) \o ": " \o e.owm_temp \o DegreeSign
         \o "C (feels like " \o e.owm_feels_like \o DegreeSign \o "C), "
         \o Title(e.owm_description) \o ", Humidity: " \o e.owm_humidity \o "%"
    ELSE "Could not get weather for " \o city \o ". Please check city name."

RECURSIVE OrganicItems(_, _)
\* the numbered items made of organic_results[:3], from item i on
OrganicItems(results, i) ==
    IF i > Len(results) \/ i > 3 THEN <<>>
    ELSE <<NatToStr(i) \o ". " \o results[i].title \o "\n   " \o results[i].snippet
           \o "\n   Source: " \o results[i].link>> \o OrganicItems(results, i + 1)

\* Search._search_serpapi and Search._search_serpapi_requests: the text, or
\* "" for None
SearchSerpapi(e, q) ==
    IF e.serp_http = "200" /\ e.organic_results # <<>>
    THEN "Real-time search results for '" \o q \o "':\n\n"
         \o Join(OrganicItems(e.organic_results, 1), "\n\n")
    ELSE ""

\* Search._search_wikipedia
SearchWikipedia(e, q) ==
    IF e.wiki = "exception" THEN "Search error for '" \o q \o "': " \o e.http_error
    ELSE IF e.wiki = "no_results"
    THEN "No information found for '" \o q \o "'. Try a different search term."
    ELSE IF e.wiki = "page"
    THEN "Wikipedia information about '" \o q \o "':\n\n" \o e.wiki_summary
         \o "\n\nSource: " \o e.wiki_url
    ELSE IF e.wiki = "disambiguation"
    THEN "Wikipedia information about '" \o q \o "' (" \o e.wiki_options[1] \o "):\n\n"
         \o e.wiki_summary \o "\n\nSource: " \o e.wiki_url
    ELSE IF e.wiki = "disambiguation_fails"
    THEN "Multiple articles found for '" \o q \o "'. Please be more specific. Options: "
         \o Join(SubSeq(e.wiki_options, 1, Min({5, Len(e.wiki_options)})), ", ")
    ELSE "Could not find detailed information about '" \o q \o "'."

\* Search.execute
SearchExecute(e, q) ==
    IF e.serpapi_key /\ SearchSerpapi(e, q) # "" THEN SearchSerpapi(e, q)
    ELSE SearchWikipedia(e, q)

RECURSIVE NewsItems(_, _)
\* the numbered items made of news_results[:5], from item i on
NewsItems(results, i) ==
    IF i > Len(results) \/ i > 5 THEN <<>>
    ELSE LET news == results[i]
         IN  <<NatToStr(i) \o ". " \o news.title
               \o (IF news.date # "" THEN " (" \o news.date \o ")" ELSE "")
               \o "\n   Source: " \o news.source
               \o (IF news.snippet # "" THEN "\n   " \o news.snippet ELSE "")
               \o (IF news.link # "" THEN "\n   Link: " \o news.link ELSE "")>>
             \o NewsItems(results, i + 1)

\* News.execute
NewsExecute(e, topic) ==
    LET q == IF ~Contains(Lower(topic), "news") /\ ~Contains(Lower(topic), "latest")
             THEN "latest news " \o topic ELSE topic
    IN  IF ~e.serpapi_key
        THEN "News search requires API key. Using general search instead."
        ELSE IF e.serp_http = "exception"
        THEN "News search error for '" \o q \o "': " \o e.http_error
        ELSE IF e.serp_http = "200" /\ e.news_results # <<>>
        THEN "Latest news for '" \o q \o "':\n\n" \o Join(NewsItems(e.news_results, 1), "\n\n")
        ELSE IF e.serp_http = "200" /\ e.organic_results # <<>>
        THEN "Recent information about '" \o q \o "':\n\n"
             \o Join(OrganicItems(e.organic_results, 1), "\n\n")
        ELSE "Could not retrieve news for '" \o q \o "' at this time."

\* the external sources Weather.execute contacts, in order
WeatherSources(e) ==
    IF ~e.openweather_key THEN <<"wttr.in">> ELSE <<"api.openweathermap.org">>

\* the external sources Search.execute contacts, in order
SearchSources(e, q) ==
    IF e.serpapi_key
    THEN IF SearchSerpapi(e, q) # "" THEN <<"serpapi.com">> ELSE <<"serpapi.com", "wikipedia">>
    ELSE <<"wikipedia">>

\* the external sources News.execute contacts, in order
NewsSources(e) == IF ~e.serpapi_key THEN <<>> ELSE <<"serpapi.com">>

\* the external sources tool.execute(parameters) contacts, in order
ToolSources(e, tool_name, params) ==
    IF tool_name = "weather" THEN WeatherSources(e)
    ELSE IF tool_name = "search" THEN SearchSources(e, params)
    ELSE IF tool_name = "news" THEN NewsSources(e)
    ELSE <<>>

\* TOOLS
ToolsDict == {"calculator", "weather", "search", "news"}

\* tool.execute(parameters) of FreeLLMAgent.execute_tool
ToolExecute(e, tool_name, params) ==
    IF tool_name = "calculator" THEN CalculatorRun(params).text
    ELSE IF tool_name = "weather" THEN WeatherExecute(e, params)
    ELSE IF tool_name = "search" THEN SearchExecute(e, params)
    ELSE NewsExecute(e, params)

\* FreeLLMAgent.generate_response with _create_smart_response
GenerateResponse(e, q, tool_result) ==
    IF e.hf_token /\ e.hf_http = "200" /\ Strip(e.generated_text) # ""
    THEN Strip(e.generated_text)
    ELSE tool_result

---------------------------------------------------------------------------
(* agent.py: FreeLLMAgent.process_query, one action per stage              *)

\* the bullet of the guidance template, outside the modelled alphabet
BulletSign == "*"

\* line 363
SpecialResponse ==
    "The Rabbitron Lab is hosting a workshop about AI agents where students and researchers can learn about artificial intelligence, autonomous systems, and intelligent agent development."

\* lines 347-360
SpecialSteps ==
    <<Step("Query Analysis",
           "Detected specific question about current events at Heriot-Watt University"),
      Step("Knowledge Retrieval",
           "Accessing prepared information about Rabbitron Lab activities"),
      Step("Response Generation", "Providing current workshop information")>>

\* the condition of lines 343-344
IsSpecialCase(q) ==
    LET query_lower == Lower(q)
    IN  /\ Contains(query_lower, "heriot")
        /\ Contains(query_lower, "watt")
        /\ ContainsAny(query_lower, {"current", "event", "happening"})

\* line 389
ErrorResponse ==
    "I'm sorry, but your input appears to be random characters or doesn't contain recognizable words. Could you please provide a clear question or request? For example:\n\n"
    \o BulletSign \o " Ask for a calculation: 'What is 25 * 4 + 100?'\n"
    \o BulletSign \o " Request weather: 'What's the weather in London?'\n"
    \o BulletSign \o " Search for information: 'What is quantum computing?'\n"
    \o BulletSign \o " Get news: 'Latest news about AI'"

\* lines 392-402
RejectionValidation ==
    [overall_decision |-> "correct",
     confidence |-> 95,
     reasoning |-> "Correctly identified and handled meaningless input with helpful guidance",
     validation_details |->
         [answer_type |-> "error_handling",
          contains_factual_info |-> FALSE,
          specific_patterns |-> <<"Input validation error", "Helpful guidance provided">>,
          potential_issues |-> <<>>]]

\* the dictionary process_query returns
Envelope(response, steps, tool_used, params, validation) ==
    [response |-> response,
     reasoning_steps |-> steps,
     tool_used |-> tool_used,
     parameters |-> params,
     validation |-> validation,
     reflection |-> validation]

\* the locals of a call; previous holds, in a session of several calls, what
\* the calls that have ended left with their callers
EmptyFrame ==
    [selected_tool |-> "", parameters |-> "", tool_result |-> "", final_response |-> "",
     previous |-> <<>>]

\* self.reasoning_steps.clear() in place of a new list: the envelopes of
\* earlier calls go on holding the list of self.reasoning_steps
RebindKeepingList(previous, steps) == previous

\* self.reasoning_steps = [...]: the attribute is bound to a new list, and the
\* envelopes of earlier calls keep the list they were returned with, which
\* holds steps
Rebind(previous, steps) ==
    [i \in DOMAIN previous |->
        IF previous[i].live
        THEN [previous[i] EXCEPT !.live = FALSE, !.detached_steps = steps]
        ELSE previous[i]]

Pending == [outcome |-> "pending"]

Raised(exception) == [outcome |-> "raised", exception |-> exception]

Returned(value) == [outcome |-> "returned", value |-> value]

\* the world in which every request raises and no key is configured
Offline ==
    [openweather_key |-> FALSE, weather_http |-> "exception", wttr_text |-> "",
     owm_temp |-> "", owm_feels_like |-> "", owm_description |-> "", owm_humidity |-> "",
     http_error |-> "Connection refused",
     serpapi_key |-> FALSE, serp_http |-> "exception", organic_results |-> <<>>,
     news_results |-> <<>>,
     wiki |-> "exception", wiki_summary |-> "", wiki_url |-> "", wiki_options |-> <<>>,
     hf_token |-> FALSE, hf_http |-> "exception", generated_text |-> ""]

\* what the world may answer during a query: the free services answer (FreeUp)
\* or refuse (FreeDown); every key is configured and every service answers
\* (KeysUp), answers without content (KeysEmpty), raises or refuses (KeysDown);
\* the hosted model answers in a few words and news has only organic results
\* (Terse)
Worlds ==
    LET OrganicResult ==
            [title |-> "Quantum computing", snippet |-> "Computation with qubits.",
             link |-> "https://example.org/q"]
        NewsResult ==
            [title |-> "AI agents ship", snippet |-> "", source |-> "Wire",
             date |-> "2 hours ago", link |-> "https://example.org/n"]
        FreeUp ==
            [Offline EXCEPT !.weather_http = "200", !.wttr_text = "Sunny +20~C 50%\n",
                            !.wiki = "page",
                            !.wiki_summary = "Quantum computing is computation that uses quantum phenomena.",
                            !.wiki_url = "https://en.wikipedia.org/wiki/Q"]
        FreeDown ==
            [Offline EXCEPT !.weather_http = "404", !.wiki = "no_results"]
        KeysUp ==
            [FreeUp EXCEPT !.openweather_key = TRUE, !.owm_temp = "20.5",
                           !.owm_feels_like = "19.8", !.owm_description = "light rain",
                           !.owm_humidity = "50", !.serpapi_key = TRUE, !.serp_http = "200",
                           !.organic_results = <<OrganicResult, OrganicResult>>,
                           !.news_results = <<NewsResult>>,
                           !.hf_token = TRUE, !.hf_http = "200",
                           !.generated_text = " It is 4, as far as I can tell. "]
        KeysEmpty ==
            [KeysUp EXCEPT !.weather_http = "404", !.organic_results = <<>>,
                           !.news_results = <<>>, !.wiki = "disambiguation",
                           !.wiki_options = <<"Q (physics)", "Q (band)">>,
                           !.generated_text = "  "]
        KeysDown ==
            [KeysUp EXCEPT !.weather_http = "exception", !.serp_http = "exception",
                           !.wiki = "disambiguation_fails",
                           !.wiki_options = <<"Q (physics)", "Q (band)">>,
                           !.hf_http = "503"]
        Terse ==
            [KeysUp EXCEPT !.openweather_key = FALSE, !.news_results = <<>>,
                           !.wiki = "page_error", !.serp_http = "500",
                           !.generated_text = "Sure."]
    IN  {Offline, FreeUp, FreeDown, KeysUp, KeysEmpty, KeysDown, Terse}

Queries ==
    {"What's 15 * 23 + 100?", "calculate 2+2", "calculate 2-5", "calculate 10/4",
     "calculate the sum of 5 and 3", "compute 1/0", "multiply 4 and 5",
     "What's the weather in London?", "how is rain in Rome", "Oslo weather",
     "is it sunny in the big city, today",
     "what is quantum computing?", "tell me about python", "hello there general kenobi",
     "Latest news about AI", "what happened yesterday",
     "yuhyhyugyuguygu", "asdfghjklqwerty", "aaaaaaaaaaaaa", "",
     "What is happening at Heriot Watt?", "heriot watt event aaaaa",
     "What is happening at Heriot-Watt?", "Current weather at Heriot-Watt"}

\* datetime.now().strftime("%Y-%m-%d %H:%M:%S")
Timestamps == {"2025-01-01 10:00:00", "2025-01-01 10:00:01"}

Init ==
    /\ pc = "idle"
    /\ query = ""
    /\ env = Offline
    /\ frame = EmptyFrame
    /\ reasoning_steps = <<>>
    /\ validation_history = <<>>
    /\ result = Pending

\* process_query(q) is entered, in world e
Submit(q, e) ==
    /\ pc = "idle"
    /\ pc' = "entered"
    /\ query' = q
    /\ env' = e
    /\ frame' = EmptyFrame
    /\ result' = Pending
    /\ UNCHANGED <<reasoning_steps, validation_history>>

\* the return that follows validate_response, or the exception that leaves
\* process_query; v is what validate_response did
Conclude(v, response, steps, tool_used, params) ==
    IF v.raised # ""
    THEN /\ pc' = "raised"
         /\ result' = Raised(v.raised)
         /\ UNCHANGED validation_history
    ELSE /\ pc' = "returned"
         /\ result' = Returned(Envelope(response, steps, tool_used, params, v.report))
         /\ validation_history' = Append(validation_history, v.report)

\* self.reflector.validate_response(...) and what follows it
ValidateAndReturn(response, steps, tool_used, params, now) ==
    Conclude(ValidateResponse(query, response, steps, now), response, steps, tool_used, params)

\* lines 341-377
SpecialCase(now) ==
    /\ pc = "entered"
    /\ IsSpecialCase(query)
    /\ reasoning_steps' = SpecialSteps
    /\ frame' = [frame EXCEPT !.previous = Rebind(@, reasoning_steps)]
    /\ ValidateAndReturn(SpecialResponse, SpecialSteps, "University Knowledge Base",
                         "Heriot-Watt University Current Events", now)
    /\ UNCHANGED <<query, env>>

\* line 380
ThinkStep ==
    /\ pc = "entered"
    /\ ~IsSpecialCase(query)
    /\ reasoning_steps' = Think(query).steps
    /\ frame' = [frame EXCEPT !.selected_tool = Think(query).tool,
                              !.previous = Rebind(@, reasoning_steps)]
    /\ pc' = "routed"
    /\ UNCHANGED <<query, env, validation_history, result>>

\* lines 383-411
Reject ==
    /\ pc = "routed"
    /\ frame.selected_tool = "invalid"
    /\ reasoning_steps' =
           Append(reasoning_steps,
                  Step("Input Validation Failed",
                       "Query appears to be random characters or meaningless input"))
    /\ result' = Returned(Envelope(ErrorResponse, reasoning_steps', "input_validator",
                                   "invalid_input_detected", RejectionValidation))
    /\ pc' = "returned"
    /\ UNCHANGED <<query, env, frame, validation_history>>

\* lines 414-418
ExtractStep ==
    /\ pc = "routed"
    /\ frame.selected_tool # "invalid"
    /\ LET params == ExtractParameters(query, frame.selected_tool)
       IN  /\ frame' = [frame EXCEPT !.parameters = params]
           /\ reasoning_steps' =
                  Append(reasoning_steps,
                         Step("Parameter Extraction", "Extracted parameters: " \o params))
    /\ pc' = "extracted"
    /\ UNCHANGED <<query, env, validation_history, result>>

\* line 421: FreeLLMAgent.execute_tool
ExecuteStep ==
    /\ pc = "extracted"
    /\ IF frame.selected_tool \in ToolsDict
       THEN LET tool_result == ToolExecute(env, frame.selected_tool, frame.parameters)
            IN  /\ frame' = [frame EXCEPT !.tool_result = tool_result]
                /\ reasoning_steps' =
                       reasoning_steps
                       \o <<Step("Tool Execution",
                                 "Executing " \o frame.selected_tool \o " with parameters: "
                                 \o frame.parameters),
                            Step("Result", tool_result)>>
       ELSE /\ frame' = [frame EXCEPT
                            !.tool_result = "Tool " \o frame.selected_tool \o " not found"]
            /\ UNCHANGED reasoning_steps
    /\ pc' = "executed"
    /\ UNCHANGED <<query, env, validation_history, result>>

\* lines 424-428
GenerateStep ==
    /\ pc = "executed"
    /\ LET final_response == GenerateResponse(env, query, frame.tool_result)
       IN  /\ frame' = [frame EXCEPT !.final_response = final_response]
           /\ reasoning_steps' = Append(reasoning_steps, Step("Final Response", final_response))
    /\ pc' = "generated"
    /\ UNCHANGED <<query, env, validation_history, result>>

\* lines 431-444
ValidateStep(now) ==
    /\ pc = "generated"
    /\ ValidateAndReturn(frame.final_response, reasoning_steps, frame.selected_tool,
                         frame.parameters, now)
    /\ UNCHANGED <<query, env, frame, reasoning_steps>>

Next ==
    \/ \E q \in Queries, e \in Worlds : Submit(q, e)
    \/ \E now \in Timestamps : SpecialCase(now)
    \/ ThinkStep
    \/ Reject
    \/ ExtractStep
    \/ ExecuteStep
    \/ GenerateStep
    \/ \E now \in Timestamps : ValidateStep(now)

Spec == Init /\ [][Next]_vars

---------------------------------------------------------------------------
(* One agent used for several calls of process_query.  The agent keeps     *)
(* reasoning_steps and the reflector's validation_history from call to     *)
(* call; frame.previous records, for each call that has ended, its query,  *)
(* the world that answered it and what the caller got.  An envelope holds  *)
(* the list of self.reasoning_steps itself, not a copy: live says that the *)
(* attribute is still bound to the list of that envelope.                  *)

\* a session has up to MaxCalls calls
MaxCalls == 2

SessionQueries ==
    {"calculate 2-5", "what is quantum computing?", "What is happening at Heriot Watt?",
     "xx", "qwrtpsdfg"}

\* the worlds in which the encyclopedia has a page
SessionWorlds == {e \in Worlds : e.wiki = "page"}

\* what the caller of process_query gets: the exception, or the fields
\* tool_used and parameters of the envelope with the decision and the
\* confidence of its validation (the validation of a rejected query names
\* them overall_decision and confidence)
CallOutcome(r) ==
    IF r.outcome = "raised" THEN [raised |-> r.exception]
    ELSE IF "validation_decision" \in DOMAIN r.value.validation
    THEN [tool_used |-> r.value.tool_used,
          parameters |-> r.value.parameters,
          validation_decision |-> r.value.validation.validation_decision,
          confidence_level |-> r.value.validation.confidence_level]
    ELSE [tool_used |-> r.value.tool_used,
          parameters |-> r.value.parameters,
          overall_decision |-> r.value.validation.overall_decision,
          confidence |-> r.value.validation.confidence]

\* the reasoning_steps of the envelope r, as they were when it was returned
\* (no steps when the call raised)
ReturnedSteps(r) == IF r.outcome = "returned" THEN r.value.reasoning_steps ELSE <<>>

\* the list of the envelope of an earlier call p, as it is now: the list of
\* self.reasoning_steps while the attribute is still bound to it
EnvelopeSteps(p) == IF p.live THEN reasoning_steps ELSE p.detached_steps

InitSession ==
    /\ pc = "idle"
    /\ query = ""
    /\ env = Offline
    /\ frame = EmptyFrame
    /\ reasoning_steps = <<>>
    /\ validation_history = <<>>
    /\ result = Pending

\* the first call process_query(q) of the session is entered, in world e
FirstCall(q, e) ==
    /\ pc = "idle"
    /\ pc' = "entered"
    /\ query' = q
    /\ env' = e
    /\ result' = Pending
    /\ UNCHANGED <<frame, reasoning_steps, validation_history>>

\* a further call process_query(q) is entered, in world e, on the agent as
\* the call before left it
NextCall(q, e) ==
    /\ pc \in {"returned", "raised"}
    /\ Len(frame.previous) + 1 < MaxCalls
    /\ pc' = "entered"
    /\ query' = q
    /\ env' = e
    /\ frame' = [EmptyFrame EXCEPT
                     !.previous =
                         Append(frame.previous,
                                [query |-> query, env |-> env,
                                 outcome |-> CallOutcome(result),
                                 returned_steps |-> ReturnedSteps(result),
                                 live |-> pc = "returned",
                                 detached_steps |-> <<>>])]
    /\ result' = Pending
    /\ UNCHANGED <<reasoning_steps, validation_history>>

NextSession ==
    \/ \E q \in SessionQueries, e \in SessionWorlds : FirstCall(q, e)
    \/ \E q \in SessionQueries, e \in SessionWorlds : NextCall(q, e)
    \/ \E now \in Timestamps : SpecialCase(now)
    \/ ThinkStep
    \/ Reject
    \/ ExtractStep
    \/ ExecuteStep
    \/ GenerateStep
    \/ \E now \in Timestamps : ValidateStep(now)

SpecSession == InitSession /\ [][NextSession]_vars

---------------------------------------------------------------------------
(* Two calls of process_query that overlap.  Each thread has its own pc,   *)
(* query, locals and result (the variables are functions of the thread);   *)
(* reasoning_steps and validation_history are attributes of an agent       *)
(* instance and of its reflector (functions of the instance).  A thread    *)
(* runs one step of process_query at a time, and the steps of the two      *)
(* threads interleave in any order.  No step takes a lock.  Thread 1 calls *)
(* instance 1; thread 2 calls instance 1 as well, or instance 2.           *)

Threads == {1, 2}

\* the queries of the threads
ParallelQueries == {"calculate 2-5", "What's the weather in London?", "xx"}

\* an instance whose attributes are those of the class: one list for all
\* instances
InstanceOfClass(agent) == 1

\* the object whose attributes reasoning_steps and reflector an agent
\* instance has: __init__ gives every instance a list and a reflector of
\* its own
Instance(agent) == agent

\* the locals of a thread that calls process_query of the instance agent
ThreadFrame(agent) ==
    [agent |-> agent, selected_tool |-> "", parameters |-> "", tool_result |-> "",
     final_response |-> ""]

InitParallel ==
    /\ pc = [t \in Threads |-> "idle"]
    /\ query = [t \in Threads |-> ""]
    /\ env = Offline
    /\ frame = [t \in Threads |-> ThreadFrame(t)]
    /\ reasoning_steps = [a \in Threads |-> <<>>]
    /\ validation_history = [a \in Threads |-> <<>>]
    /\ result = [t \in Threads |-> Pending]

\* thread t enters agent.process_query(q)
ThreadCall(t, q, agent) ==
    /\ pc[t] = "idle"
    /\ pc' = [pc EXCEPT ![t] = "entered"]
    /\ query' = [query EXCEPT ![t] = q]
    /\ frame' = [frame EXCEPT ![t] = ThreadFrame(agent)]
    /\ UNCHANGED <<env, reasoning_steps, validation_history, result>>

\* the instance thread t calls
Self(t) == Instance(frame[t].agent)

\* line 380: self.think(query)
ThreadThink(t) ==
    /\ pc[t] = "entered"
    /\ reasoning_steps' = [reasoning_steps EXCEPT ![Self(t)] = Think(query[t]).steps]
    /\ frame' = [frame EXCEPT ![t].selected_tool = Think(query[t]).tool]
    /\ pc' = [pc EXCEPT ![t] = "routed"]
    /\ UNCHANGED <<query, env, validation_history, result>>

\* lines 383-411
ThreadReject(t) ==
    /\ pc[t] = "routed"
    /\ frame[t].selected_tool = "invalid"
    /\ reasoning_steps' =
           [reasoning_steps EXCEPT ![Self(t)] =
               Append(@, Step("Input Validation Failed",
                              "Query appears to be random characters or meaningless input"))]
    /\ result' = [result EXCEPT ![t] =
                     Returned(Envelope(ErrorResponse, reasoning_steps'[Self(t)],
                                       "input_validator", "invalid_input_detected",
                                       RejectionValidation))]
    /\ pc' = [pc EXCEPT ![t] = "returned"]
    /\ UNCHANGED <<query, env, frame, validation_history>>

\* lines 414-418
ThreadExtract(t) ==
    /\ pc[t] = "routed"
    /\ frame[t].selected_tool # "invalid"
    /\ LET params == ExtractParameters(query[t], frame[t].selected_tool)
       IN  /\ frame' = [frame EXCEPT ![t].parameters = params]
           /\ reasoning_steps' =
                  [reasoning_steps EXCEPT ![Self(t)] =
                      Append(@, Step("Parameter Extraction",
                                     "Extracted parameters: " \o params))]
    /\ pc' = [pc EXCEPT ![t] = "extracted"]
    /\ UNCHANGED <<query, env, validation_history, result>>

\* line 421: FreeLLMAgent.execute_tool
ThreadExecute(t) ==
    /\ pc[t] = "extracted"
    /\ LET tool_result == ToolExecute(env, frame[t].selected_tool, frame[t].parameters)
       IN  /\ frame' = [frame EXCEPT ![t].tool_result = tool_result]
           /\ reasoning_steps' =
                  [reasoning_steps EXCEPT ![Self(t)] =
                      @ \o <<Step("Tool Execution",
                                  "Executing " \o frame[t].selected_tool
                                  \o " with parameters: " \o frame[t].parameters),
                             Step("Result", tool_result)>>]
    /\ pc' = [pc EXCEPT ![t] = "executed"]
    /\ UNCHANGED <<query, env, validation_history, result>>

\* lines 424-428
ThreadGenerate(t) ==
    /\ pc[t] = "executed"
    /\ LET final_response == GenerateResponse(env, query[t], frame[t].tool_result)
       IN  /\ frame' = [frame EXCEPT ![t].final_response = final_response]
           /\ reasoning_steps' =
                  [reasoning_steps EXCEPT ![Self(t)] =
                      Append(@, Step("Final Response", final_response))]
    /\ pc' = [pc EXCEPT ![t] = "generated"]
    /\ UNCHANGED <<query, env, validation_history, result>>

\* lines 431-444
ThreadValidate(t, now) ==
    /\ pc[t] = "generated"
    /\ LET v == ValidateResponse(query[t], frame[t].final_response,
                                 reasoning_steps[Self(t)], now)
       IN  IF v.raised # ""
           THEN /\ pc' = [pc EXCEPT ![t] = "raised"]
                /\ result' = [result EXCEPT ![t] = Raised(v.raised)]
                /\ UNCHANGED validation_history
           ELSE /\ pc' = [pc EXCEPT ![t] = "returned"]
                /\ result' = [result EXCEPT ![t] =
                                 Returned(Envelope(frame[t].final_response,
                                                   reasoning_steps[Self(t)],
                                                   frame[t].selected_tool,
                                                   frame[t].parameters, v.report))]
                /\ validation_history' =
                       [validation_history EXCEPT ![Self(t)] = Append(@, v.report)]
    /\ UNCHANGED <<query, env, frame, reasoning_steps>>

NextParallel ==
    \E t \in Threads :
        \/ \E q \in ParallelQueries, agent \in 1..t : ThreadCall(t, q, agent)
        \/ ThreadThink(t)
        \/ ThreadReject(t)
        \/ ThreadExtract(t)
        \/ ThreadExecute(t)
        \/ ThreadGenerate(t)
        \/ ThreadValidate(t, "2025-01-01 10:00:00")

SpecParallel == InitParallel /\ [][NextParallel]_vars

---------------------------------------------------------------------------
(* The calculator and the arithmetic re-check, called on their own         *)

\* operands of the generated expressions are 0..MaxOperand
MaxOperand == 6

\* the expressions handed to the calculator: every  a op b  over the operands,
\* and expressions of other shapes
Expressions ==
    {NatToStr(a) \o op \o NatToStr(b) : a \in 0..MaxOperand, b \in 0..MaxOperand, op \in OpChars}
    \cup {"15 * 23 + 100", "2 + 3", "(2+3)*4", "2-3*4", "9-3-2", "1.5+2", "-3+5", "2^3",
          "2*pi", "sum", "abc", "2+x", "2 $ 3", "2 +", "", "3.5", "a_b", "7//2"}

\* queries that contain the expression e
QueriesAbout(e) == {"calculate " \o e, "What's " \o e \o "?", e \o " = ?"}

RecheckQueries ==
    {"calculate the sum of 5 and 3", "what is five plus three", "calculate 2+2",
     "calculate 1/0", "calculate 2+", "math: 7 * 6", "calculate 2 ^ 3"}

RecheckResponses ==
    {"The sum is 8", "4", "Calculation: 2+2 = 4", "no number here", "", "The answer: 42",
     "Error calculating 1/0: division by zero", "= 8"}

InitCalc ==
    /\ pc = "calc_idle"
    /\ query = ""
    /\ env = Offline
    /\ frame = EmptyFrame
    /\ reasoning_steps = <<>>
    /\ validation_history = <<>>
    /\ result = Pending

\* Calculator.execute(expression)
CalculatorCall(expression) ==
    /\ pc = "calc_idle"
    /\ frame' = [EmptyFrame EXCEPT !.selected_tool = "calculator",
                                   !.parameters = expression,
                                   !.tool_result = CalculatorRun(expression).text]
    /\ result' = Returned(CalculatorRun(expression))
    /\ pc' = "calculated"
    /\ UNCHANGED <<query, env, reasoning_steps, validation_history>>

\* ReflectorAgent._validate_mathematical_answer(q, the calculator's response):
\* the round trip
RecheckCalculation(q) ==
    /\ pc = "calculated"
    /\ query' = q
    /\ frame' = [frame EXCEPT !.final_response = frame.tool_result]
    /\ result' = Returned(ValidateMathematicalAnswer(q, frame.tool_result))
    /\ pc' = "rechecked"
    /\ UNCHANGED <<env, reasoning_steps, validation_history>>

\* ReflectorAgent._validate_mathematical_answer(q, response)
Recheck(q, response) ==
    /\ pc = "calc_idle"
    /\ query' = q
    /\ frame' = [EmptyFrame EXCEPT !.final_response = response]
    /\ result' = Returned(ValidateMathematicalAnswer(q, response))
    /\ pc' = "rechecked"
    /\ UNCHANGED <<env, reasoning_steps, validation_history>>

\* the numbers a response may state in place of the calculator's result
StatedAnswers == {"5", "4", "-4", "2.6", "20", "8"}

\* ReflectorAgent._validate_mathematical_answer(q, a response in the format of
\* the calculator that states the number answer)
RecheckAnswer(q, answer) ==
    /\ pc = "calculated"
    /\ query' = q
    /\ frame' = [frame EXCEPT
                    !.final_response = "Calculation: " \o frame.parameters \o " = " \o answer]
    /\ result' = Returned(ValidateMathematicalAnswer(
                               q, "Calculation: " \o frame.parameters \o " = " \o answer))
    /\ pc' = "answer_rechecked"
    /\ UNCHANGED <<env, reasoning_steps, validation_history>>

NextCalc ==
    \/ \E expression \in Expressions : CalculatorCall(expression)
    \/ \E q \in QueriesAbout(frame.parameters) : RecheckCalculation(q)
    \/ \E q \in QueriesAbout(frame.parameters), answer \in StatedAnswers :
           RecheckAnswer(q, answer)
    \/ \E q \in RecheckQueries, response \in RecheckResponses : Recheck(q, response)

SpecCalc == InitCalc /\ [][NextCalc]_vars

---------------------------------------------------------------------------
(* The reflector, called on its own                                        *)

ReflectQueries ==
    {"calculate 2+2", "calculate 2-5", "calculate 10/4", "calculate the sum of 5 and 3",
     "What's 15 * 23 + 100?", "math quiz", "What's the weather in London?",
     "temperature in Paris", "what is quantum computing?", "how is rain in Rome",
     "who is Ada", "define recursion", "hello there", "Latest news about AI"}

ReflectResponses ==
    {"Calculation: 2+2 = 4", "Calculation: 2+2 = 5", "Calculation: 2-5 = -3",
     "Calculation: 10/4 = 2.5", "Calculation: 15 * 23 + 100 = 445", "The sum is 8",
     "no idea", "", "Sure.", "4", "Could not get weather for Rome",
     "Current weather in London: Sunny +20~C 50%",
     "Weather service temporarily unavailable for Paris",
     "It is 20 degrees and cloudy in the city today.",
     "Quantum computing is computation that uses quantum phenomena.",
     "Could not find detailed information about 'ada'."}

\* a trace of the pipeline, the trace of the special case, and no trace
StepChains ==
    {<<>>,
     SpecialSteps,
     <<Step("Query Analysis", "Analyzing user query: 'q'"),
       Step("Tool Selection", "Detected mathematical operations - selecting Calculator tool"),
       Step("Parameter Extraction", "Extracted parameters: 2+2"),
       Step("Tool Execution", "Executing calculator with parameters: 2+2"),
       Step("Result", "4"),
       Step("Final Response", "4")>>}

\* traces with some of the critical steps, with other steps, and with steps
\* of little content
PartialChains ==
    {<<Step("Query Analysis", "Analyzing user query: 'q'")>>,
     <<Step("Query Analysis", "Analyzing user query: 'q'"),
       Step("Tool Selection", "Selecting the Search tool")>>,
     <<Step("Tool Execution", "Executing search"), Step("Result", "found")>>,
     <<Step("query analysis and tool selection", "analysing and selecting")>>,
     <<Step("Thought", "thinking about it"), Step("Plan", "planning the answer"),
       Step("Answer", "writing the answer")>>,
     <<Step("Query Analysis", "Analyzing user query: 'q'"),
       Step("Plan", "planning the answer"), Step("Answer", "ok")>>,
     <<Step("Query Analysis", "Analyzing user query: 'q'"),
       Step("Tool Selection", "Selecting the Search tool"),
       Step("Tool Execution", "Executing search with parameters: q")>>,
     <<Step("Query Analysis", ""), Step("Tool Selection", ""), Step("Tool Execution", "")>>}

InitReflect ==
    /\ pc = "reflect_idle"
    /\ query = ""
    /\ env = Offline
    /\ frame = EmptyFrame
    /\ reasoning_steps = <<>>
    /\ validation_history = <<>>
    /\ result = Pending

\* what validate_response leaves behind; v is what it did
Reflected(v) ==
    IF v.raised # ""
    THEN /\ pc' = "raised"
         /\ result' = Raised(v.raised)
         /\ UNCHANGED validation_history
    ELSE /\ pc' = "returned"
         /\ result' = Returned(v.report)
         /\ validation_history' = Append(validation_history, v.report)

\* ReflectorAgent.validate_response(q, response, steps)
ValidateResponseCall(q, response, steps, now) ==
    /\ pc = "reflect_idle"
    /\ query' = q
    /\ frame' = [EmptyFrame EXCEPT !.final_response = response]
    /\ reasoning_steps' = steps
    /\ Reflected(ValidateResponse(q, response, steps, now))
    /\ UNCHANGED env

NextReflect ==
    \/ \E q \in ReflectQueries, response \in ReflectResponses, steps \in StepChains,
          now \in Timestamps :
           ValidateResponseCall(q, response, steps, now)
    \/ \E q \in {"calculate 2+2", "what is quantum computing?"},
          response \in {"Calculation: 2+2 = 4",
                        "Quantum computing is computation that uses quantum phenomena."},
          steps \in PartialChains, now \in Timestamps :
           ValidateResponseCall(q, response, steps, now)

SpecReflect == InitReflect /\ [][NextReflect]_vars

---------------------------------------------------------------------------
(* The reflector used for several validations, and its summary             *)

\* round(v, 1): the float with one decimal nearest to v, the even one of two
\* that are equally near
Round1(v) ==
    LET scaled == 10 * v.num
        floor == scaled \div v.den
        twice == 2 * (scaled % v.den)
    IN  IF twice > v.den \/ (twice = v.den /\ floor % 2 = 1)
        THEN Rat("float", floor + 1, 10)
        ELSE Rat("float", floor, 10)

\* sum(v['confidence_level'] for v in history)
RECURSIVE SumConfidence(_)
SumConfidence(history) ==
    IF history = <<>> THEN 0
    ELSE history[1].confidence_level + SumConfidence(Tail(history))

\* sum(1 for v in history if v['validation_decision'])
CorrectCount(history) ==
    Cardinality({i \in DOMAIN history : history[i].validation_decision})

\* history[-5:]
RecentValidations(history) ==
    SubSeq(history, Max({1, Len(history) - 4}), Len(history))

\* ReflectorAgent.get_validation_summary()
GetValidationSummary(history) ==
    IF history = <<>> THEN [message |-> "No validations performed yet"]
    ELSE LET total_validations == Len(history)
             correct_count == CorrectCount(history)
         IN  [total_validations |-> total_validations,
              accuracy_rate |-> Round1(Rat("float", 100 * correct_count, total_validations)),
              average_confidence |->
                  Round1(Rat("float", SumConfidence(history), total_validations)),
              recent_correct |-> CorrectCount(RecentValidations(history)),
              recent_total |-> Len(RecentValidations(history)),
              latest_validation |-> history[Len(history)].timestamp,
              validation_trend |->
                  IF 100 * correct_count > 80 * total_validations THEN "Improving"
                  ELSE IF 100 * correct_count < 60 * total_validations
                  THEN "Needs attention" ELSE "Stable"]

\* the history holds up to MaxHistory reports
MaxHistory == 6

\* the validations of a session: a right answer, a wrong one, and a short
\* answer to a question of fact
HistoryCalls ==
    {<<"calculate 2+2", "Calculation: 2+2 = 4">>,
     <<"calculate 2+2", "Calculation: 2+2 = 5">>,
     <<"who is Ada", "no idea">>}

InitHistory ==
    /\ pc = "history_idle"
    /\ query = ""
    /\ env = Offline
    /\ frame = EmptyFrame
    /\ reasoning_steps = <<>>
    /\ validation_history = <<>>
    /\ result = Pending

\* ReflectorAgent.validate_response(q, response, []) on a reflector that has
\* validated before
ValidateAgain(q, response, now) ==
    /\ Len(validation_history) < MaxHistory
    /\ query' = q
    /\ frame' = [EmptyFrame EXCEPT !.final_response = response]
    /\ reasoning_steps' = <<>>
    /\ Reflected(ValidateResponse(q, response, <<>>, now))
    /\ UNCHANGED env

\* ReflectorAgent.get_validation_summary()
SummaryCall ==
    /\ pc # "summarised"
    /\ pc' = "summarised"
    /\ result' = Returned(GetValidationSummary(validation_history))
    /\ UNCHANGED <<query, env, frame, reasoning_steps, validation_history>>

NextHistory ==
    \/ \E call \in HistoryCalls, now \in Timestamps : ValidateAgain(call[1], call[2], now)
    \/ SummaryCall

SpecHistory == InitHistory /\ [][NextHistory]_vars

---------------------------------------------------------------------------
(* The Input Validator, the router and the parameter extractor, called on  *)
(* their own                                                               *)

\* generated queries have up to MaxTerms operands and up to MaxRepeat
\* repetitions of one character
MaxTerms == 4
MaxRepeat == 8

RECURSIVE Repeat(_, _)
\* s * n
Repeat(s, n) == IF n = 0 THEN "" ELSE s \o Repeat(s, n - 1)

\* the operands of the generated arithmetic commands
ShortOperands == {NatToStr(n) : n \in 0..MaxOperand} \cup {"11", "25", "100"}

\* well-formed arithmetic expressions of 3 to 10 characters: every  a op b,
\* and every  x op x op ... op x  of up to MaxTerms operands
ArithmeticCommands ==
    {c \in {a \o op \o b : a \in ShortOperands, b \in ShortOperands, op \in OpChars}
           \cup {x \o Repeat(op \o x, k - 1) :
                    x \in ShortOperands, op \in OpChars, k \in 2..MaxTerms} :
        Len(c) >= 3 /\ Len(c) <= 10}

\* one character, 1 to MaxRepeat times
Repetitions ==
    {Repeat(c, n) : c \in {"a", "A", "z", "7", "?", " ", "+", CapitalIDot}, n \in 1..MaxRepeat}

\* every query of fewer than 3 characters over a few characters
ShortQueries ==
    LET Alphabet == {"a", "Z", "1", "+", " ", "?", CapitalIDot}
    IN  {""} \cup Alphabet \cup {a \o b : a \in Alphabet, b \in Alphabet}

\* the table of tests/test_meaningless_input.py, the examples of the router,
\* queries that match several categories of the router or none, and queries
\* made of stop words
RouterQueries ==
    {"yuhyhyugyuguygu", "asdfghjklqwerty", "yuyuyuyuyuyuyu", "aaaaaaaaaaaaa",
     "calculate 25 * 4", "weather in London", "what is AI", "hello world", "", "a", "xyz",
     "Calculate 12 + 7", "Weather in Tokyo?", "Latest news about AI",
     "What is quantum computing?", "What's 15 * 23 + 100?",
     "what is the sum of 2 and 3", "what is the formula for rain", "compute the forecast",
     "latest weather news today", "what is the temperature", "Is it Sunny Today",
     "what is the latest news", "explain recent events", "breaking: who is Ada",
     "weather forecast - london", "well-known people", "where is Oslo",
     "hello there general kenobi", "good morning", "multiply 4 and 5", "add 4 and 5",
     "area of a circle of radius 5", "how is rain in Rome", "Oslo weather",
     "is it sunny in the big city, today", "temperature of the UAE",
     "what is", "what is the", "tell me about the", "explain", "define the",
     "get me the news", "find me some news about the economy", "tell me about python"}

\* queries of more than 10 characters whose words are short: words of the
\* allow-list of two and three letters, other words of three letters, no word
WordQueries ==
    {"is it in 123456", "to me 12345 678", "is it me or 42 + 1?", "go up 12 to 345",
     "a 1 b 2 c 3 d 4 e", "12345 67890 12", "the 1234567890", "abc 1234567890",
     "tell me 1234567", "1234 is 567 890", "how 2 + 2 = 4 ?", "9876 5432 rain"}

\* queries of letters of one row of the keyboard: whole rows, parts of rows,
\* and rows in capitals
KeyboardQueries ==
    {"qwertyuiop", "asdfghjkl", "zxcvbnmzx", "qwertyuio", "asdfghjkla", "poiuytrewq",
     "zxcvbnmmnb", "lkjhgfdsa", "qwertyqwe", "asdfghasd", "zxcvbnzxc", "QWERTYUIOP",
     "ASDFGHJKL", "qwertyuiopqw", "asdfghjklas", "tyuiopqwert", "hjklasdfgh",
     "mnbvcxzmnb", "qwertyui", "asdfghjk", "typewriter", "alfalfa salad"}

InitRouter ==
    /\ pc = "router_idle"
    /\ query = ""
    /\ env = Offline
    /\ frame = EmptyFrame
    /\ reasoning_steps = <<>>
    /\ validation_history = <<>>
    /\ result = Pending

\* FreeLLMAgent._is_meaningless_query(q)
IsMeaninglessCall(q) ==
    /\ pc = "router_idle"
    /\ query' = q
    /\ result' = Returned(IsMeaninglessQuery(q))
    /\ pc' = "classified"
    /\ UNCHANGED <<env, frame, reasoning_steps, validation_history>>

\* FreeLLMAgent.think(q)
ThinkCall(q) ==
    /\ pc = "router_idle"
    /\ query' = q
    /\ reasoning_steps' = Think(q).steps
    /\ frame' = [EmptyFrame EXCEPT !.selected_tool = Think(q).tool]
    /\ result' = Returned(Think(q).tool)
    /\ pc' = "thought"
    /\ UNCHANGED <<env, validation_history>>

\* FreeLLMAgent.extract_parameters(query, the tool think() selected)
ExtractCall ==
    /\ pc = "thought"
    /\ frame.selected_tool # "invalid"
    /\ frame' = [frame EXCEPT !.parameters = ExtractParameters(query, frame.selected_tool)]
    /\ result' = Returned(ExtractParameters(query, frame.selected_tool))
    /\ pc' = "parameters_extracted"
    /\ UNCHANGED <<query, env, reasoning_steps, validation_history>>

NextRouter ==
    \/ \E q \in RouterQueries \cup ArithmeticCommands \cup Repetitions \cup ShortQueries
                  \cup WordQueries \cup KeyboardQueries :
           IsMeaninglessCall(q)
    \/ \E q \in RouterQueries \cup ArithmeticCommands : ThinkCall(q)
    \/ ExtractCall

SpecRouter == InitRouter /\ [][NextRouter]_vars

---------------------------------------------------------------------------
(* The weather, search and news adapters, called on their own              *)

AdapterParameters == {"London", "Rome", "big city", "quantum computing", "", "latest ai news"}

InitAdapters ==
    /\ pc = "adapter_idle"
    /\ query = ""
    /\ env = Offline
    /\ frame = EmptyFrame
    /\ reasoning_steps = <<>>
    /\ validation_history = <<>>
    /\ result = Pending

\* TOOLS[tool_name].execute(params) in world e: the text returned and the
\* sources contacted
AdapterCall(tool_name, params, e) ==
    /\ pc = "adapter_idle"
    /\ env' = e
    /\ frame' = [EmptyFrame EXCEPT !.selected_tool = tool_name,
                                   !.parameters = params,
                                   !.tool_result = ToolExecute(e, tool_name, params)]
    /\ result' = Returned([text |-> ToolExecute(e, tool_name, params),
                           sources |-> ToolSources(e, tool_name, params)])
    /\ pc' = "adapted"
    /\ UNCHANGED <<query, reasoning_steps, validation_history>>

NextAdapters ==
    \E tool_name \in {"weather", "search", "news"}, params \in AdapterParameters, e \in Worlds :
        AdapterCall(tool_name, params, e)

SpecAdapters == InitAdapters /\ [][NextAdapters]_vars

---------------------------------------------------------------------------
(* Properties of process_query, checked under Spec                         *)

\* C1: every call of process_query that has ended returned normally, with one
\* envelope that holds a tool_used, a response and a validation report: no
\* exception of the tool executor or of validate_response leaves the call
C1_EveryCallReturnsAnEnvelope ==
    pc \in {"returned", "raised"} =>
        /\ result.outcome = "returned"
        /\ {"tool_used", "response", "validation"} \subseteq DOMAIN result.value

\* C1: a call in which the weather adapter turned a refusal into a text, the
\* text reached the reflector, and a TypeError left process_query
C1_TypeErrorLeavesTheCall ==
    /\ pc = "raised"
    /\ result = Raised("TypeError")
    /\ query = "how is rain in Rome"
    /\ frame.selected_tool = "weather"
    /\ frame.final_response = "Could not get weather for Rome"

\* C4: for an input the Input Validator classified meaningless, process_query
\* returns tool_used 'input_validator', the guidance template as response, and
\* a validation record that has a validation_decision field, which is true
C4_RejectionCarriesAValidationReport ==
    (pc = "returned" /\ frame.selected_tool = "invalid") =>
        /\ result.value.tool_used = "input_validator"
        /\ result.value.response = ErrorResponse
        /\ "validation_decision" \in DOMAIN result.value.validation
        /\ result.value.validation.validation_decision = TRUE

\* C4: the rejection of 'yuhyhyugyuguygu', whose validation record has the
\* fields overall_decision, confidence, reasoning and validation_details only
C4_RejectionRecordHasOtherFields ==
    /\ pc = "returned"
    /\ query = "yuhyhyugyuguygu"
    /\ result.value.tool_used = "input_validator"
    /\ result.value.response = ErrorResponse
    /\ DOMAIN result.value.validation =
           {"overall_decision", "confidence", "reasoning", "validation_details"}

\* C5: a call for a query that _is_meaningless_query classifies as meaningless
\* goes from its entry to the validator's verdict and to the guidance
\* rejection only: it reaches no parameter extraction, no tool execution, no
\* response generation and no canned answer
C5_MeaninglessQueryIsRejectedFirst ==
    (pc # "idle" /\ IsMeaninglessQuery(query)) =>
        /\ pc \in {"entered", "routed", "returned"}
        /\ pc = "routed" => frame.selected_tool = "invalid"
        /\ pc = "returned" => /\ result.value.tool_used = "input_validator"
                              /\ result.value.response = ErrorResponse

\* C5: a query that _is_meaningless_query classifies as meaningless and that
\* process_query answered from the prepared knowledge, validated by the reflector
C5_MeaninglessQueryGetsCannedAnswer ==
    /\ pc = "returned"
    /\ query = "heriot watt event aaaaa"
    /\ IsMeaninglessQuery(query)
    /\ result.value.tool_used = "University Knowledge Base"
    /\ result.value.response = SpecialResponse
    /\ result.value.validation.validation_decision = TRUE

---------------------------------------------------------------------------
(* Properties of the calculator and of the arithmetic re-check, checked    *)
(* under SpecCalc                                                          *)

\* C2: the arithmetic round trip.  For an expression E made of integers and
\* + - * /, which the calculator evaluated and answered with
\* 'Calculation: {E} = {result}', the re-check of that response against a query
\* that contains E reports is_correct, with expected_result and
\* provided_result no more than 0.01 apart
C2_RoundTripIsCorrect ==
    LET E == frame.parameters
        arithmetic ==
            /\ Len(E) > 0
            /\ IsDigit(At(E, 1))
            /\ IsDigit(At(E, Len(E)))
            /\ \A i \in 1..Len(E) : At(E, i) \in DigitChars \cup OpChars \cup {" "}
            /\ ~Contains(E, "//")
            /\ ~Contains(E, "**")
    IN  (/\ pc = "rechecked"
         /\ frame.selected_tool = "calculator"
         /\ arithmetic
         /\ SubSeq(frame.tool_result, 1, 13) = "Calculation: ")
        => /\ result.value.is_correct
           /\ IsNum(result.value.expected_result)
           /\ IsNum(result.value.provided_result)
           /\ ~NumLess(Rat("float", 1, 100),
                       AbsDiff(result.value.expected_result, result.value.provided_result))

\* C2: the round trip of 2-5: the calculator answers -3, the re-check reads 3
\* from the response and reports the answer incorrect
C2_NegativeResultIsRejected ==
    /\ pc = "rechecked"
    /\ frame.selected_tool = "calculator"
    /\ frame.parameters = "2-5"
    /\ frame.tool_result = "Calculation: 2-5 = -3"
    /\ query = "calculate 2-5"
    /\ ~result.value.is_correct
    /\ result.value.expected_result = IntVal(-3)
    /\ result.value.provided_result = IntVal(3)

\* C3: the re-check is lenient.  When no expression can be extracted from the
\* query, or the expression cannot be evaluated, or no number can be read from
\* the response, _validate_mathematical_answer reports is_correct
C3_UnverifiableIsPresumedCorrect ==
    (/\ pc = "rechecked"
     /\ \/ ExtractMathExpression(query) = ""
        \/ PyEval(SafeExpr(ExtractMathExpression(query))).err # ""
        \/ ExtractResultFromResponse(frame.final_response).kind = "none")
    => result.value.is_correct

\* C3: a re-check that could extract no expression from the query and reports
\* the answer incorrect, with no expected result
C3_NoExpressionIsReportedIncorrect ==
    /\ pc = "rechecked"
    /\ query = "calculate the sum of 5 and 3"
    /\ frame.final_response = "The sum is 8"
    /\ ExtractMathExpression(query) = ""
    /\ ~result.value.is_correct
    /\ result.value.expected_result = NoneVal

\* C10: Calculator.execute hands an expression to eval only if every character
\* of the normalised expression is a digit, one of + - * / ( ) . or a space;
\* with any other character it returns the error string and evaluates nothing
C10_OnlyArithmeticCharactersAreEvaluated ==
    pc = "calculated" =>
        LET safe_expression == CalcNormalise(frame.parameters)
            clean == \A i \in 1..Len(safe_expression) :
                         At(safe_expression, i) \in CalcAllowedChars
        IN  ~clean => /\ ~result.value.evaluated
                      /\ result.value.text = "Error: Invalid characters in expression"

\* C10: the expression 'sum', all letters, is evaluated and answered with a
\* computed result
C10_LettersAreEvaluated ==
    /\ pc = "calculated"
    /\ frame.parameters = "sum"
    /\ result.value.evaluated
    /\ result.value.text = "Calculation: sum = <built-in function sum>"

\* C17: when the number a response states differs from the value of the
\* query's expression (by 0.01 or more if one of them is a float), the re-check
\* reports is_correct = false, with the value of the expression as
\* expected_result and the number of the response as provided_result.
C17_WrongAnswerIsRejected ==
    LET truth == PyEval(CalcNormalise(frame.parameters))
        text == From(frame.final_response, Len(frame.parameters) + 17)
        stated == IF At(text, 1) = "-"
                  THEN [LiteralVal(From(text, 2)) EXCEPT !.num = -@]
                  ELSE LiteralVal(text)
        differ == IF truth.val.kind = "float" \/ stated.kind = "float"
                  THEN ~NumLess(AbsDiff(truth.val, stated), Rat("float", 1, 100))
                  ELSE truth.val # stated
    IN  (/\ pc = "answer_rechecked"
         /\ CalcAllowed(CalcNormalise(frame.parameters))
         /\ truth.err = ""
         /\ IsNum(truth.val)
         /\ differ)
        => /\ ~result.value.is_correct
           /\ result.value.expected_result = truth.val
           /\ result.value.provided_result = stated

\* C17: the response 'Calculation: 2+2 = -4' to 'calculate 2+2': the re-check
\* reads 4 from it and reports the answer correct
C17_NegatedAnswerIsAccepted ==
    /\ pc = "answer_rechecked"
    /\ query = "calculate 2+2"
    /\ frame.final_response = "Calculation: 2+2 = -4"
    /\ result.value.is_correct
    /\ result.value.expected_result = IntVal(4)
    /\ result.value.provided_result = IntVal(4)

---------------------------------------------------------------------------
(* Properties of validate_response, checked under SpecReflect              *)

\* C6: whenever the arithmetic re-check fails (math_validation.is_correct is
\* false), validate_response returns a report whose decision is incorrect and
\* whose confidence_level is at most 30, whatever the reasoning trace and the
\* heuristic validator's verdict are
C6_FailedRecheckIsDecisive ==
    LET mv == AnalyzeAnswerContent(query, frame.final_response).math_validation
    IN  (pc \in {"returned", "raised"} /\ mv.present /\ ~mv.is_correct) =>
            /\ pc = "returned"
            /\ result.value.answer_analysis.math_validation = mv
            /\ result.value.validation_decision = FALSE
            /\ result.value.validation_status = "INCORRECT"
            /\ result.value.confidence_level <= 30

\* C6: a failed re-check with a complete reasoning trace and a heuristic
\* verdict 'correct': the report is incorrect all the same
C6_FailedRecheckAgainstGoodVerdict ==
    /\ pc = "returned"
    /\ result.value.answer_analysis.math_validation.present
    /\ ~result.value.answer_analysis.math_validation.is_correct
    /\ result.value.ai_validation.ai_decision = "correct"
    /\ result.value.reasoning_validation.completeness_score = 100
    /\ result.value.validation_decision = FALSE
    /\ result.value.confidence_level = 20

\* C7: a response that lacks the content its query's answer type requires (no
\* number for a mathematical query, no weather vocabulary for a weather query,
\* a response below the minimum length for an informational query) makes
\* validate_response return a report whose validation_decision is false
C7_MissingContentIsFlagged ==
    LET response == frame.final_response
        lacking ==
            \/ AnswerType(query) = "mathematical" /\ ~HasNumber(response)
            \/ AnswerType(query) = "weather" /\ ~HasWeatherWords(response)
            \/ AnswerType(query) = "informational" /\ Len(response) < 20
    IN  (pc \in {"returned", "raised"} /\ lacking) =>
            /\ pc = "returned"
            /\ result.value.validation_decision = FALSE

\* C7: an informational query with a response of a few characters: a
\* TypeError leaves validate_response, and no report is made
C7_BriefInformationalAnswerRaises ==
    /\ pc = "raised"
    /\ query = "who is Ada"
    /\ frame.final_response = "no idea"
    /\ result = Raised("TypeError")
    /\ validation_history = <<>>

\* C8: the decision of a report is incorrect exactly when there is a major
\* issue, a failed arithmetic re-check or missing required content; the
\* heuristic validator's verdict moves the confidence by +5 or -15 from its
\* base, and neither the verdict nor the reasoning trace takes part in the
\* decision
C8_DecisionFollowsMajorIssuesOnly ==
    pc = "returned" =>
        LET report == result.value
            answer_type == report.answer_analysis.answer_type
            mv == report.answer_analysis.math_validation
            failed == mv.present /\ ~mv.is_correct
            missing ==
                \/ answer_type = "mathematical" /\ ~HasNumber(report.mrkl_response)
                \/ answer_type = "weather" /\ ~HasWeatherWords(report.mrkl_response)
                \/ answer_type = "informational" /\ Len(report.mrkl_response) < 20
            verdict == report.ai_validation.ai_decision
            delta == IF verdict = "correct" THEN 5 ELSE -15
        IN  /\ verdict \in {"correct", "incorrect"}
            /\ report.validation_decision = ~(failed \/ missing)
            /\ ~(failed \/ missing) => report.confidence_level \in {85 + delta, 90 + delta}
            /\ (missing /\ ~failed) => report.confidence_level = 85 + delta - 30

\* C8: a report with no major issue, made with an empty reasoning trace
\* (completeness 0) and a heuristic verdict 'incorrect': the decision is
\* correct, the confidence 85 - 15
C8_VerdictAloneDoesNotFlip ==
    /\ pc = "returned"
    /\ reasoning_steps = <<>>
    /\ result.value.reasoning_validation.completeness_score = 0
    /\ result.value.ai_validation.ai_decision = "incorrect"
    /\ result.value.validation_decision = TRUE
    /\ result.value.confidence_level = 70

\* C9, as amended: the confidence_level of every report is an integer of
\* 20..95; with no major issue the decision is correct and the confidence is
\* the base, 85 or 90 when the arithmetic re-check verified the result, plus 5
\* for a heuristic verdict 'correct' or minus 15 for a verdict 'incorrect'
C9_ConfidenceFromBase85Or90 ==
    pc = "returned" =>
        LET report == result.value
            answer_type == report.answer_analysis.answer_type
            mv == report.answer_analysis.math_validation
            major_issue ==
                \/ mv.present /\ ~mv.is_correct
                \/ answer_type = "mathematical" /\ ~HasNumber(report.mrkl_response)
                \/ answer_type = "weather" /\ ~HasWeatherWords(report.mrkl_response)
                \/ answer_type = "informational" /\ Len(report.mrkl_response) < 20
            base == IF mv.present /\ mv.is_correct THEN 90 ELSE 85
            delta == IF report.ai_validation.ai_decision = "correct" THEN 5 ELSE -15
        IN  /\ report.confidence_level \in 20..95
            /\ ~major_issue => /\ report.validation_decision = TRUE
                               /\ report.confidence_level = base + delta

\* C9, as stated: the confidence_level of every report is an integer of
\* 20..95; with no major issue the decision is correct and the confidence is
\* the default 85, plus 5 or minus 15
C9_ConfidenceFromDefault85 ==
    pc = "returned" =>
        LET report == result.value
            answer_type == report.answer_analysis.answer_type
            mv == report.answer_analysis.math_validation
            major_issue ==
                \/ mv.present /\ ~mv.is_correct
                \/ answer_type = "mathematical" /\ ~HasNumber(report.mrkl_response)
                \/ answer_type = "weather" /\ ~HasWeatherWords(report.mrkl_response)
                \/ answer_type = "informational" /\ Len(report.mrkl_response) < 20
            delta == IF report.ai_validation.ai_decision = "correct" THEN 5 ELSE -15
        IN  /\ report.confidence_level \in 20..95
            /\ ~major_issue => /\ report.validation_decision = TRUE
                               /\ report.confidence_level \in {85, 85 + delta}

\* C9: a report of a verified calculation with a heuristic verdict 'correct':
\* the confidence is 90 + 5
C9_VerifiedCalculationHas95 ==
    /\ pc = "returned"
    /\ query = "calculate 2+2"
    /\ frame.final_response = "Calculation: 2+2 = 4"
    /\ result.value.answer_analysis.math_validation.is_correct
    /\ result.value.validation_decision = TRUE
    /\ result.value.confidence_level = 95

---------------------------------------------------------------------------
(* Properties of the Input Validator, the router and the parameter         *)
(* extractor, checked under SpecRouter                                     *)

\* C11: for a query that passed the Input Validator and the tool think()
\* selected for it, extract_parameters returns a non-empty string.
C11_ExtractionIsNeverEmpty ==
    pc = "parameters_extracted" =>
        /\ result.outcome = "returned"
        /\ frame.parameters # ""

\* C11: a query made of stop words of the search extraction passes the Input
\* Validator, is routed to search, and extract_parameters returns ''
C11_StopWordsLeaveNoTopic ==
    /\ pc = "parameters_extracted"
    /\ query = "tell me about the"
    /\ ~IsMeaninglessQuery(query)
    /\ frame.selected_tool = "search"
    /\ result = Returned("")

\* C12: for a query that passed the Input Validator, think() returns one of
\* calculator, weather, news, search: the tool of the first category, in the
\* order arithmetic, weather, news, that has a keyword in the lower-cased
\* query, and search when none has; the examples of the specification get
\* their tools; and the trace holds exactly one 'Tool Selection' step, the
\* last one, whose text names the tool selected.
C12_FirstMatchingCategoryWins ==
    LET q == Lower(query)
        arithmetic == \E k \in {"calculate", "math", "+", "-", "*", "/", "=", "sum",
                                "multiply", "divide", "compute", "formula"} : Contains(q, k)
        weather == \E k \in {"weather", "temperature", "rain", "sunny", "climate",
                             "forecast", "humidity", "wind"} : Contains(q, k)
        news == \E k \in {"news", "latest", "recent", "current events", "breaking",
                          "today", "yesterday", "happening"} : Contains(q, k)
    IN  pc = "thought" /\ frame.selected_tool # "invalid" =>
            /\ frame.selected_tool =
                   IF arithmetic THEN "calculator"
                   ELSE IF weather THEN "weather"
                   ELSE IF news THEN "news" ELSE "search"
            /\ query = "Calculate 12 + 7" => frame.selected_tool = "calculator"
            /\ query = "Weather in Tokyo?" => frame.selected_tool = "weather"
            /\ query = "Latest news about AI" => frame.selected_tool = "news"
            /\ query = "What is quantum computing?" => frame.selected_tool = "search"
            /\ Cardinality({i \in DOMAIN reasoning_steps :
                              reasoning_steps[i].step = "Tool Selection"}) = 1
            /\ reasoning_steps[Len(reasoning_steps)].step = "Tool Selection"
            /\ Contains(Lower(reasoning_steps[Len(reasoning_steps)].content),
                        frame.selected_tool)

\* C12: a query with an arithmetic keyword, a weather keyword and informational
\* phrasing is routed to the calculator
C12_ArithmeticKeywordWins ==
    /\ pc = "thought"
    /\ query = "what is the formula for rain"
    /\ frame.selected_tool = "calculator"
    /\ reasoning_steps[2] =
           Step("Tool Selection", "Detected mathematical operations - selecting Calculator tool")

---------------------------------------------------------------------------
(* Properties of the adapters, checked under SpecAdapters                  *)

\* C13: when the primary source of an adapter is unavailable (no key
\* configured, a refusal or an exception) or returns no usable data, the
\* adapter contacts its secondary source in the same call: the weather adapter
\* the free mirror wttr.in, the search and news adapters the encyclopedia;
\* no source is contacted twice, and the call ends with a text.
C13_AdaptersFallBackInOrder ==
    pc = "adapted" =>
        /\ result.value.text # ""
        /\ \A i \in DOMAIN result.value.sources, j \in DOMAIN result.value.sources :
               result.value.sources[i] = result.value.sources[j] => i = j
        /\ (frame.selected_tool = "weather"
            /\ (~env.openweather_key \/ env.weather_http # "200"))
           => \E i \in DOMAIN result.value.sources : result.value.sources[i] = "wttr.in"
        /\ (frame.selected_tool = "search"
            /\ (~env.serpapi_key \/ env.serp_http # "200" \/ env.organic_results = <<>>))
           => \E i \in DOMAIN result.value.sources : result.value.sources[i] = "wikipedia"
        /\ (frame.selected_tool = "news"
            /\ (~env.serpapi_key \/ env.serp_http # "200"
                \/ (env.news_results = <<>> /\ env.organic_results = <<>>)))
           => \E i \in DOMAIN result.value.sources : result.value.sources[i] = "wikipedia"

\* C13: the weather adapter with a key configured, whose service refuses the
\* request: the call ends without contacting the free mirror
C13_RefusalEndsWithoutMirror ==
    /\ pc = "adapted"
    /\ frame.selected_tool = "weather"
    /\ frame.parameters = "London"
    /\ env.openweather_key
    /\ env.weather_http = "404"
    /\ result = Returned([text |-> "Could not get weather for London. Please check city name.",
                          sources |-> <<"api.openweathermap.org">>])

\* C14: _is_meaningless_query returns the flag the table of
\* tests/test_meaningless_input.py expects: true for keyboard mashing, keyboard
\* rows, repetitive characters, one repeated character, the empty string, one
\* character and three random characters; false for the valid queries.
C14_TestTableHolds ==
    pc = "classified" =>
        /\ query \in {"yuhyhyugyuguygu", "asdfghjklqwerty", "yuyuyuyuyuyuyu",
                      "aaaaaaaaaaaaa", "", "a", "xyz"}
           => result.value = TRUE
        /\ query \in {"calculate 25 * 4", "weather in London", "what is AI", "hello world"}
           => result.value = FALSE

\* C14: the three random characters 'xyz' are classified as meaningful
C14_ThreeRandomCharactersPass ==
    /\ pc = "classified"
    /\ query = "xyz"
    /\ result = Returned(FALSE)

\* C15: every query of 3 to 10 characters that is a well-formed arithmetic
\* expression (digits and + - * /, starting and ending with a digit, no two
\* operators in a row) is classified as meaningful.
C15_ShortArithmeticIsMeaningful ==
    (/\ pc = "classified"
     /\ Len(query) >= 3 /\ Len(query) <= 10
     /\ \A i \in 1..Len(query) : At(query, i) \in DigitChars \cup OpChars
     /\ IsDigit(At(query, 1)) /\ IsDigit(At(query, Len(query)))
     /\ \A i \in 1..(Len(query) - 1) :
            At(query, i) \in OpChars => At(query, i + 1) \notin OpChars)
    => result.value = FALSE

\* C15: the sum 2+2+2+2, seven characters, is classified as meaningless
C15_ShortSumIsBlocked ==
    /\ pc = "classified"
    /\ query = "2+2+2+2"
    /\ result = Returned(TRUE)

\* C16: _is_meaningless_query returns true for every query of fewer than 3
\* characters and for every query that is one character repeated 6 or more
\* times.
C16_ShortAndRepeatedAreMeaningless ==
    (/\ pc = "classified"
     /\ \/ Len(query) < 3
        \/ Len(query) >= 6 /\ \A i \in 1..Len(query) : At(query, i) = At(query, 1))
    => result.value = TRUE

\* C16: the query of two characters U+0130, whose lower case has four, is
\* classified as meaningful
C16_DottedCapitalsPass ==
    /\ pc = "classified"
    /\ query = CapitalIDot \o CapitalIDot
    /\ Len(query) = 2
    /\ Len(Lower(query)) = 4
    /\ result = Returned(FALSE)

---------------------------------------------------------------------------
(* Properties of process_query from end to end, checked under Spec         *)

---------------------------------------------------------------------------
(* Properties of the validation history, checked under SpecHistory         *)

\* C20: each run of validate_response appends exactly one report to the end
\* of validation_history and leaves the entries before it as they were, a
\* call of get_validation_summary leaves the history as it was, and the
\* summary of a history with entries reports the number of entries, the
\* accuracy rate over all entries and the average confidence over the last
\* five entries.
C20_HistoryIsAppendedAndSummarised ==
    /\ [][/\ pc' \in {"returned", "raised"} =>
                /\ Len(validation_history') = Len(validation_history) + 1
                /\ SubSeq(validation_history', 1, Len(validation_history)) = validation_history
                /\ pc' = "returned"
                /\ validation_history'[Len(validation_history')] = result'.value
          /\ pc' = "summarised" => validation_history' = validation_history]_vars
    /\ [](pc = "summarised" /\ validation_history # <<>> =>
            /\ result.value.total_validations = Len(validation_history)
            /\ result.value.accuracy_rate =
                   Round1(Rat("float", 100 * CorrectCount(validation_history),
                              Len(validation_history)))
            /\ result.value.average_confidence =
                   Round1(Rat("float", SumConfidence(RecentValidations(validation_history)),
                              Len(RecentValidations(validation_history)))))

\* C20: a run of validate_response has ended, on a reflector that had
\* validated nothing before, and the history is still empty: the run raised
C20_RaisingRunAppendsNothing ==
    /\ pc = "raised"
    /\ query = "who is Ada"
    /\ frame.final_response = "no idea"
    /\ result = Raised("TypeError")
    /\ validation_history = <<>>

---------------------------------------------------------------------------
(* Properties of the last rules of the Input Validator, checked under      *)
(* SpecRouter                                                              *)

\* C21: in the last rule a word counts as valid if it is in the allow-list
\* of common words or has 4 letters or more, words of two letters of the
\* allow-list included: a query of more than 10 characters after trimming
\* that no earlier rule flags is classified meaningless exactly when it has
\* no such word.
C21_AllowListWordsCount ==
    LET c == Lower(Strip(query))
    IN  (/\ pc = "classified"
         /\ Len(c) > 10
         /\ ~(Cardinality(CharSet(c)) <= 2)
         /\ ~MashedFewChars(c)
         /\ ~RepeatedUnit(c)
         /\ ~ConsonantHeavy(c)
         /\ ~TiledPrefix(c)
         /\ ~KeyboardRow(c))
        => (result.value
              <=> {w \in PotentialWords(c) : w \in CommonWords \/ Len(w) >= 4} = {})

\* C21: a query of 15 characters whose words are is, it and in, all three
\* in the allow-list, is classified meaningless
C21_TwoLetterWordsDoNotCount ==
    /\ pc = "classified"
    /\ query = "is it in 123456"
    /\ {"is", "it", "in"} \subseteq CommonWords
    /\ PotentialWords(Lower(Strip(query))) = {"is", "it", "in"}
    /\ ValidWords(Lower(Strip(query))) = {}
    /\ result = Returned(TRUE)

\* C22: every query of more than 8 characters that consists of letters of
\* one row of the keyboard only is classified meaningless.
C22_KeyboardRowsAreMeaningless ==
    LET c == Lower(Strip(query))
    IN  (/\ pc = "classified"
         /\ Len(c) > 8
         /\ \E row \in {"qwertyuiop", "asdfghjkl", "zxcvbnm"} :
                \A i \in 1..Len(c) : At(c, i) \in CharSet(row))
        => result.value

\* C22: the whole top row of the keyboard, 10 letters, is classified
\* meaningful
C22_TopRowPasses ==
    /\ pc = "classified"
    /\ query = "qwertyuiop"
    /\ ~KeyboardRow(Lower(Strip(query)))
    /\ result = Returned(FALSE)

---------------------------------------------------------------------------
(* Properties of the rule-based validator and of the validation of the     *)
(* reasoning chain, checked under SpecReflect                              *)

\* C23: the rule-based validator decides incorrect exactly when it found
\* more issues than positive indicators, and correct otherwise, also when it
\* found as many of the one as of the other.
C23_IncorrectWhenIssuesOutnumber ==
    pc = "returned" =>
        LET found == AiFindings(query, frame.final_response, reasoning_steps)
        IN  result.value.ai_validation.ai_decision =
                IF Len(found.issues_found) > Len(found.positive_indicators)
                THEN "incorrect" ELSE "correct"

\* C23: the response 4 to calculate 2+2, without a trace: one positive
\* indicator (a number), one issue (under 10 characters), decided incorrect
C23_TieIsDecidedIncorrect ==
    /\ pc = "returned"
    /\ query = "calculate 2+2"
    /\ frame.final_response = "4"
    /\ reasoning_steps = <<>>
    /\ AiFindings(query, frame.final_response, reasoning_steps).issues_found
           = <<"Response appears too brief">>
    /\ AiFindings(query, frame.final_response, reasoning_steps).positive_indicators
           = <<"Contains numerical result for math query">>
    /\ result.value.ai_validation.ai_decision = "incorrect"
    /\ result.value.ai_validation.ai_reasoning = "Issues identified: Response appears too brief"

\* C24, as the claim has it: the completeness score is the share of the
\* three critical steps that the trace has, in percent, and at least 80 when
\* the trace has 3 steps or more; the label follows from the score alone
\* (Excellent from 80, Good from 60, Acceptable from 40, Poor below), and
\* logical_consistency is false exactly below 40.
C24_LabelFollowsScoreAlone ==
    pc = "returned" =>
        LET v == result.value.reasoning_validation
            present == Cardinality({k \in 1..3 :
                          \E i \in 1..Len(reasoning_steps) :
                              Contains(Lower(reasoning_steps[i].step),
                                       <<"query analysis", "tool selection",
                                         "tool execution">>[k])})
            share == (100 * present) \div 3
        IN  /\ v.completeness_score =
                   IF Len(reasoning_steps) >= 3 THEN Max({share, 80}) ELSE share
            /\ v.reasoning_quality =
                   IF v.completeness_score >= 80 THEN "Excellent"
                   ELSE IF v.completeness_score >= 60 THEN "Good"
                   ELSE IF v.completeness_score >= 40 THEN "Acceptable"
                   ELSE "Poor"
            /\ v.logical_consistency <=> v.completeness_score >= 40

\* C24, as the program has it: the score and logical_consistency are as
\* above; the label is Excellent when the score is 80 or more and every step
\* of the trace has a content of 5 characters or more; it is Good when the
\* score is 60 or more otherwise, Acceptable from 40, Poor below.
C24_ExcellentNeedsStepsWithContent ==
    pc = "returned" =>
        LET v == result.value.reasoning_validation
            present == Cardinality({k \in 1..3 :
                          \E i \in 1..Len(reasoning_steps) :
                              Contains(Lower(reasoning_steps[i].step),
                                       <<"query analysis", "tool selection",
                                         "tool execution">>[k])})
            share == (100 * present) \div 3
            minimal == \E i \in 1..Len(reasoning_steps) : Len(reasoning_steps[i].content) < 5
        IN  /\ v.completeness_score =
                   IF Len(reasoning_steps) >= 3 THEN Max({share, 80}) ELSE share
            /\ v.reasoning_quality =
                   IF v.completeness_score >= 80 /\ ~minimal THEN "Excellent"
                   ELSE IF v.completeness_score >= 60 THEN "Good"
                   ELSE IF v.completeness_score >= 40 THEN "Acceptable"
                   ELSE "Poor"
            /\ v.logical_consistency <=> v.completeness_score >= 40

\* C24: a trace with the three critical steps and a step whose content is
\* the one character 4: the score is 100 and the label is Good
C24_FullTraceWithShortStepIsGood ==
    /\ pc = "returned"
    /\ Len(reasoning_steps) = 6
    /\ \E i \in 1..Len(reasoning_steps) : reasoning_steps[i] = Step("Result", "4")
    /\ result.value.reasoning_validation.completeness_score = 100
    /\ result.value.reasoning_validation.missing_steps = <<>>
    /\ result.value.reasoning_validation.reasoning_quality = "Good"
    /\ result.value.reasoning_validation.logical_consistency

---------------------------------------------------------------------------
(* Properties of a session of calls, checked under SpecSession             *)

\* C25: in a session of calls that do not overlap, the trace of a call only
\* grows by appends once the call has begun it, and the first step of a call
\* replaces the trace by a new one; the reasoning_steps of a returned
\* envelope are the steps of its own query in order (on the normal path
\* Query Analysis, Tool Selection, Parameter Extraction, Tool Execution,
\* Result, Final Response, with the query, the parameters, the tool result
\* and the response of this call), and the reasoning_steps of the envelopes
\* of earlier calls are as they were returned.
C25_TraceIsPerCall ==
    /\ [][/\ pc \in {"routed", "extracted", "executed", "generated"} =>
                /\ Len(reasoning_steps') >= Len(reasoning_steps)
                /\ SubSeq(reasoning_steps', 1, Len(reasoning_steps)) = reasoning_steps
          /\ pc = "entered" =>
                \/ reasoning_steps' = SpecialSteps
                \/ /\ Len(reasoning_steps') = 2
                   /\ reasoning_steps'[1] =
                          Step("Query Analysis", "Analyzing user query: '" \o query \o "'")]_vars
    /\ [](pc = "returned" =>
            /\ result.value.reasoning_steps = reasoning_steps
            /\ result.value.tool_used \in ToolNames =>
                   /\ [i \in 1..Len(reasoning_steps) |-> reasoning_steps[i].step] =
                          <<"Query Analysis", "Tool Selection", "Parameter Extraction",
                            "Tool Execution", "Result", "Final Response">>
                   /\ reasoning_steps[1].content = "Analyzing user query: '" \o query \o "'"
                   /\ reasoning_steps[3].content =
                          "Extracted parameters: " \o result.value.parameters
                   /\ reasoning_steps[4].content =
                          "Executing " \o result.value.tool_used \o " with parameters: "
                          \o result.value.parameters
                   /\ reasoning_steps[5].content = frame.tool_result
                   /\ reasoning_steps[6].content = result.value.response
            /\ result.value.tool_used = "input_validator" =>
                   /\ [i \in 1..Len(reasoning_steps) |-> reasoning_steps[i].step] =
                          <<"Query Analysis", "Input Validation", "Input Validation Failed">>
                   /\ reasoning_steps[1].content = "Analyzing user query: '" \o query \o "'"
            /\ result.value.tool_used = "University Knowledge Base" =>
                   reasoning_steps = SpecialSteps)
    /\ [](\A i \in DOMAIN frame.previous :
              frame.previous[i].outcome # [raised |-> "TypeError"] =>
                  EnvelopeSteps(frame.previous[i]) = frame.previous[i].returned_steps)

\* C25: the second call of a session has returned, for another query than
\* the first; the envelope of the first call holds the six steps of its
\* query, in a list of its own, and the envelope of the second the six steps
\* of the second query
C25_SecondTraceReplacesFirst ==
    /\ pc = "returned"
    /\ Len(frame.previous) = 1
    /\ frame.previous[1].query = "calculate 2-5"
    /\ query = "what is quantum computing?"
    /\ ~frame.previous[1].live
    /\ Len(EnvelopeSteps(frame.previous[1])) = 6
    /\ EnvelopeSteps(frame.previous[1])[1].content = "Analyzing user query: 'calculate 2-5'"
    /\ Len(result.value.reasoning_steps) = 6
    /\ result.value.reasoning_steps[1].content
           = "Analyzing user query: 'what is quantum computing?'"

---------------------------------------------------------------------------
(* Properties of calls that overlap, checked under SpecParallel            *)

\* C26: with an instance per request no call sees another: when the call of
\* a thread has returned and no other thread calls the same instance, the
\* reasoning_steps of its envelope are the steps of its own query, in order
\* and with its own query, parameters, tool result and response, and the
\* validation history of its instance holds the report of its own envelope
\* and nothing else.  (Two calls on one instance that interleave reach the
\* state C26_EnvelopeHoldsStepsOfTheOtherQuery.)
C26_IsolatedCallsKeepTheirTrace ==
    \A t \in Threads :
        (/\ pc[t] = "returned"
         /\ \A u \in Threads \ {t} : frame[u].agent # frame[t].agent)
        => LET steps == result[t].value.reasoning_steps
           IN  IF result[t].value.tool_used = "input_validator"
               THEN /\ [i \in 1..Len(steps) |-> steps[i].step] =
                           <<"Query Analysis", "Input Validation", "Input Validation Failed">>
                    /\ steps[1].content = "Analyzing user query: '" \o query[t] \o "'"
                    /\ validation_history[Self(t)] = <<>>
               ELSE /\ [i \in 1..Len(steps) |-> steps[i].step] =
                           <<"Query Analysis", "Tool Selection", "Parameter Extraction",
                             "Tool Execution", "Result", "Final Response">>
                    /\ steps[1].content = "Analyzing user query: '" \o query[t] \o "'"
                    /\ steps[3].content =
                           "Extracted parameters: " \o result[t].value.parameters
                    /\ steps[4].content =
                           "Executing " \o result[t].value.tool_used \o " with parameters: "
                           \o result[t].value.parameters
                    /\ steps[5].content = frame[t].tool_result
                    /\ steps[6].content = result[t].value.response
                    /\ validation_history[Self(t)] = <<result[t].value.validation>>

\* C26: two threads call one instance and their steps interleave: the call
\* of thread 1 has returned for its query calculate 2-5, and the envelope
\* holds the Query Analysis step of the query of thread 2 and no Query
\* Analysis step of its own query
C26_EnvelopeHoldsStepsOfTheOtherQuery ==
    /\ frame[1].agent = frame[2].agent
    /\ pc[1] = "returned"
    /\ query[1] = "calculate 2-5"
    /\ query[2] = "What's the weather in London?"
    /\ result[1].value.tool_used = "calculator"
    /\ \E i \in 1..Len(result[1].value.reasoning_steps) :
           result[1].value.reasoning_steps[i] =
               Step("Query Analysis", "Analyzing user query: '" \o query[2] \o "'")
    /\ ~\E i \in 1..Len(result[1].value.reasoning_steps) :
           result[1].value.reasoning_steps[i] =
               Step("Query Analysis", "Analyzing user query: '" \o query[1] \o "'")

\* C27: for a query that the Input Validator rejects, the step of
\* process_query that follows think() returns the envelope and leaves
\* validation_history and the locals of the call as they were (no tool
\* result, no response of a tool); the envelope has tool_used
\* input_validator, the parameters invalid_input_detected, the validation
\* record built in place and not a report of the reflector, and a trace of
\* exactly Query Analysis, Input Validation, Input Validation Failed.
C27_RejectionTouchesNoToolAndNoHistory ==
    /\ [][(pc = "routed" /\ frame.selected_tool = "invalid") =>
             /\ pc' = "returned"
             /\ validation_history' = validation_history
             /\ frame' = frame]_vars
    /\ []((pc = "returned" /\ IsMeaninglessQuery(query) /\ ~IsSpecialCase(query)) =>
             /\ result.value.tool_used = "input_validator"
             /\ result.value.parameters = "invalid_input_detected"
             /\ result.value.validation = RejectionValidation
             /\ \A i \in DOMAIN validation_history :
                    validation_history[i] # result.value.validation
             /\ frame.parameters = ""
             /\ frame.tool_result = ""
             /\ frame.final_response = ""
             /\ [i \in 1..Len(result.value.reasoning_steps) |->
                     result.value.reasoning_steps[i].step] =
                    <<"Query Analysis", "Input Validation", "Input Validation Failed">>
             /\ result.value.reasoning_steps = reasoning_steps)

\* C27: a rejected query, on an agent whose history holds the report of an
\* earlier call: the history still holds that one report
C27_RejectionAfterAValidatedCall ==
    /\ pc = "returned"
    /\ query = "qwrtpsdfg"
    /\ result.value.tool_used = "input_validator"
    /\ Len(frame.previous) = 1
    /\ frame.previous[1].query = "calculate 2-5"
    /\ Len(validation_history) = 1
    /\ validation_history[1].original_query = "calculate 2-5"
    /\ Len(reasoning_steps) = 3

---------------------------------------------------------------------------
(* Properties of the router and the reflector together, checked under Spec *)

\* C28: the reflector classifies a query as the router routed it: when
\* process_query returns with tool_used = calculator the answer analysis of
\* the report has answer_type = mathematical and a re-check of the
\* arithmetic whenever the response has a digit, and when it returns with
\* tool_used = weather the answer_type is weather.
C28_ReflectorAgreesWithRouter ==
    pc = "returned" =>
        /\ result.value.tool_used = "calculator" =>
               /\ result.value.validation.answer_analysis.answer_type = "mathematical"
               /\ HasNumber(result.value.response) =>
                      result.value.validation.answer_analysis.math_validation
                          # NoMathValidation
        /\ result.value.tool_used = "weather" =>
               result.value.validation.answer_analysis.answer_type = "weather"

\* C28: multiply 4 and 5 is routed to the calculator by the keyword
\* multiply, which the reflector does not have: the answer is analysed as
\* of unknown type and the arithmetic is not re-checked
C28_MultiplyIsNotMathematicalToTheReflector ==
    /\ pc = "returned"
    /\ query = "multiply 4 and 5"
    /\ result.value.tool_used = "calculator"
    /\ SelectTool(query).tool = "calculator"
    /\ AnswerType(query) = "unknown"
    /\ result.value.validation.answer_analysis.answer_type = "unknown"
    /\ result.value.validation.answer_analysis.math_validation = NoMathValidation
    /\ result.value.validation.validation_decision

\* C29: for every query with heriot, watt and one of current, event,
\* happening, whatever else it contains, process_query returns the canned
\* response with tool_used = University Knowledge Base, after no step of a
\* tool (the trace is the three steps of the special case and the locals of
\* the call are untouched), and the reflector validates the canned answer
\* as correct.
C29_CannedAnswerIsValidated ==
    (pc \in {"returned", "raised"} /\ IsSpecialCase(query)) =>
        /\ pc = "returned"
        /\ result.value.response = SpecialResponse
        /\ result.value.tool_used = "University Knowledge Base"
        /\ result.value.reasoning_steps = SpecialSteps
        /\ frame = EmptyFrame
        /\ result.value.validation.mrkl_response = SpecialResponse
        /\ result.value.validation.validation_decision

\* C29: the query with the hyphen of Heriot-Watt gets the canned response,
\* and the reflector, which takes the hyphen for a minus sign, flags it as a
\* mathematical answer without a number
C29_HyphenMakesTheCannedAnswerWrong ==
    /\ pc = "returned"
    /\ query = "What is happening at Heriot-Watt?"
    /\ result.value.tool_used = "University Knowledge Base"
    /\ result.value.response = SpecialResponse
    /\ result.value.validation.answer_analysis.answer_type = "mathematical"
    /\ result.value.validation.answer_analysis.potential_issues
           = <<"Mathematical query but no numerical answer found">>
    /\ ~result.value.validation.validation_decision
    /\ result.value.validation.confidence_level = 40

(***************************************************************************)
(* self-critic_agent/app.py: the iterative improvement loop                *)
(*                                                                         *)
(* One run of SelfCriticSystem.iterative_improvement.  The replies of the  *)
(* generator and of the critic come from a hosted model and are inputs; an *)
(* empty reply is one of them.  env holds the session settings, frame the  *)
(* locals of the run, result the session state the run writes              *)
(* (st.session_state.iterations and current_content).  The timestamp of an *)
(* iteration record is left out: nothing reads it.  Scores are exact       *)
(* decimals [num, den]; the threshold is kept in tenths.                   *)
(***************************************************************************)

\* the largest value of the "Max Iterations" slider that is tried (it goes to 10)
MaxSlider == 3

\* the "Quality Threshold" slider: 6.0 to 10.0 in steps of 0.5, in tenths
Thresholds == {60, 80, 100}

\* the "Max Iterations" slider: 2 to 10
IterationLimits == 2..MaxSlider

CriticPrompts == {"AI in education"}

\* the replies of generate_content and improve_content
GeneratedContents == {"", "A post."}
ImprovedContents == {"", "A better post."}

\* the replies of analyze_content
Criticisms ==
    {"", "QUALITY SCORE: 8/10", "quality score:  7.5", "Quality Score: 9.25/10",
     "QUALITY SCORE: high. QUALITY SCORE:\n10.0", "Clear and engaging but weak.",
     "Poor, unclear, confusing, lacking.", "Score: 9/10"}

NegativeWords == {"poor", "weak", "lacking", "needs improvement", "unclear", "confusing"}
PositiveWords == {"excellent", "great", "good", "clear", "engaging", "well-written"}

\* the end of the match of  QUALITY SCORE:\s*(\d+(?:\.\d+)?)  (re.IGNORECASE) that
\* starts at i, or 0 if there is none
ScoreMatchEnd(s, i) ==
    IF i + 13 <= Len(s) /\ Lower(SubSeq(s, i, i + 13)) = "quality score:"
    THEN NumEnd(s, SkipWs(s, i + 14))
    ELSE 0

\* float(match.group(1)) of the match that starts at i, as an exact decimal
ScoreMatched(s, i) ==
    LET e == ScoreMatchEnd(s, i)
        b == SkipWs(s, i + 14)
        lit == SubSeq(s, b, e)
        dots == {k \in 1..Len(lit) : At(lit, k) = "."}
    IN  IF dots = {} THEN [num |-> DecVal(lit), den |-> 1]
        ELSE LET d == CHOOSE k \in dots : TRUE
             IN  [num |-> DecVal(SubSeq(lit, 1, d - 1) \o From(lit, d + 1)),
                  den |-> Pow(10, Len(lit) - d)]

\* max(1.0, min(10.0, 5.0 + 0.5 * positive_count - 0.5 * negative_count))
SentimentScore(criticism_lower) ==
    LET negative_count == Cardinality({w \in NegativeWords : Contains(criticism_lower, w)})
        positive_count == Cardinality({w \in PositiveWords : Contains(criticism_lower, w)})
        score == 50 + 5 * positive_count - 5 * negative_count
    IN  [num |-> Max({10, Min({100, score})}), den |-> 10]

\* CriticAgent.extract_quality_score(criticism), criticism a non-empty string
ExtractQualityScore(criticism) ==
    LET starts == {i \in 1..Len(criticism) : ScoreMatchEnd(criticism, i) > 0}
    IN  IF starts # {} THEN ScoreMatched(criticism, Min(starts))
        ELSE SentimentScore(Lower(criticism))

\* quality_score >= quality_threshold
IsFinal(quality_score, quality_threshold) ==
    quality_score.num * 10 >= quality_threshold * quality_score.den

\* stopped_at_max, computed without looking at is_final
StoppedAtMaxWhateverTheScore(iteration_count, max_iterations, is_final) ==
    iteration_count >= max_iterations

\* iteration_count >= max_iterations and not is_final
StoppedAtMax(iteration_count, max_iterations, is_final) ==
    iteration_count >= max_iterations /\ ~is_final

\* the locals of a run
CriticFrame ==
    [iteration_count |-> 0, current_content |-> "", previous_criticism |-> "",
     iteration_type |-> ""]

\* iteration_data
IterationData(prompt, f, criticism, max_iterations, quality_threshold) ==
    LET quality_score == ExtractQualityScore(criticism)
        is_final == IsFinal(quality_score, quality_threshold)
    IN  [prompt |-> prompt,
         content |-> f.current_content,
         criticism |-> criticism,
         quality_score |-> quality_score,
         iteration_type |-> f.iteration_type,
         iteration_number |-> f.iteration_count,
         is_final |-> is_final,
         stopped_at_max |-> StoppedAtMax(f.iteration_count, max_iterations, is_final)]

\* the session state before the first run: the settings come from the sliders,
\* the agents may not have been initialised
InitCritic ==
    /\ pc = "critic_idle"
    /\ query = ""
    /\ env \in [quality_threshold : Thresholds, max_iterations : IterationLimits,
                initialized : BOOLEAN]
    /\ frame = CriticFrame
    /\ reasoning_steps = <<>>
    /\ validation_history = <<>>
    /\ result = [iterations |-> <<>>, current_content |-> ""]

\* iterative_improvement(prompt, ...) up to the loop: the check of the agents
\* and the reset of st.session_state.iterations
IterativeImprovement(prompt) ==
    /\ pc = "critic_idle"
    /\ query' = prompt
    /\ IF ~env.initialized
       THEN /\ pc' = "critic_not_initialized"
            /\ UNCHANGED <<frame, result>>
       ELSE /\ pc' = "critic_loop"
            /\ frame' = CriticFrame
            /\ result' = [result EXCEPT !.iterations = <<>>]
    /\ UNCHANGED <<env, reasoning_steps, validation_history>>

\* the test of the while loop and the first statement of its body
LoopTest ==
    /\ pc = "critic_loop"
    /\ IF frame.iteration_count < env.max_iterations
       THEN /\ frame' = [frame EXCEPT !.iteration_count = @ + 1]
            /\ pc' = "critic_generate"
       ELSE /\ pc' = "critic_summary"
            /\ UNCHANGED frame
    /\ UNCHANGED <<query, env, reasoning_steps, validation_history, result>>

\* the first half of the body: generate_content in iteration 1, improve_content
\* afterwards, and the return on an empty reply
GenerateContentStep(reply) ==
    /\ pc = "critic_generate"
    /\ IF frame.iteration_count = 1
       THEN /\ reply \in GeneratedContents
            /\ frame' = [frame EXCEPT !.current_content = reply,
                                      !.iteration_type = "Initial Generation"]
            /\ pc' = IF reply = "" THEN "critic_failed" ELSE "critic_analyze"
       ELSE IF frame.previous_criticism # ""
       THEN /\ reply \in ImprovedContents
            /\ frame' = [frame EXCEPT !.current_content = reply,
                                      !.iteration_type = "Iterative Improvement"]
            /\ pc' = IF reply = "" THEN "critic_failed" ELSE "critic_analyze"
       ELSE /\ reply = ""
            /\ pc' = "critic_summary"
            /\ UNCHANGED frame
    /\ UNCHANGED <<query, env, reasoning_steps, validation_history, result>>

\* the second half of the body: analyze_content, the return on an empty reply,
\* the score, the record of the iteration and the two breaks
AnalyzeContentStep(criticism) ==
    /\ pc = "critic_analyze"
    /\ IF criticism = ""
       THEN /\ pc' = "critic_failed"
            /\ UNCHANGED <<frame, result>>
       ELSE LET data == IterationData(query, frame, criticism, env.max_iterations,
                                      env.quality_threshold)
            IN  /\ result' = [iterations |-> Append(result.iterations, data),
                              current_content |-> frame.current_content]
                /\ frame' = [frame EXCEPT !.previous_criticism = criticism]
                /\ pc' = IF data.is_final \/ frame.iteration_count >= env.max_iterations
                         THEN "critic_summary"
                         ELSE "critic_loop"
    /\ UNCHANGED <<query, env, reasoning_steps, validation_history>>

\* after the loop: the final summary reads iterations[-1], which raises
\* IndexError, caught by the handler of the run, when nothing was recorded
FinalSummary ==
    /\ pc = "critic_summary"
    /\ pc' = IF result.iterations = <<>> THEN "critic_error" ELSE "critic_done"
    /\ UNCHANGED <<query, env, frame, reasoning_steps, validation_history, result>>

NextCritic ==
    \/ \E prompt \in CriticPrompts : IterativeImprovement(prompt)
    \/ LoopTest
    \/ \E reply \in GeneratedContents \cup ImprovedContents : GenerateContentStep(reply)
    \/ \E criticism \in Criticisms : AnalyzeContentStep(criticism)
    \/ FinalSummary

SpecCritic == InitCritic /\ [][NextCritic]_vars

\* every statement of the run returns: the calls of the hosted model have
\* a timeout and the sleeps are finite
SpecCriticFair == SpecCritic /\ WF_vars(NextCritic)

(***************************************************************************)
(* Properties of the iterative improvement loop, checked under             *)
(* SpecCriticFair                                                          *)
(***************************************************************************)

\* the run is over: returned before the loop, returned from inside it, or
\* went through the final summary
CriticEnded == pc \in {"critic_not_initialized", "critic_failed", "critic_error", "critic_done"}

\* the loop has been entered
CriticLooped == pc \notin {"critic_idle", "critic_not_initialized"}

\* the iterations started by the run are at least 1 once the body has run, and
\* never more than max_iterations; the recorded ones are numbered 1, 2, ... and
\* are at most the started ones
IterationsWithinLimit ==
    CriticLooped =>
        /\ frame.iteration_count <= env.max_iterations
        /\ (pc # "critic_loop" => frame.iteration_count >= 1)
        /\ Len(result.iterations) <= frame.iteration_count
        /\ \A i \in 1..Len(result.iterations) : result.iterations[i].iteration_number = i

\* an iteration that reached the threshold is the last one recorded, and no
\* further iteration is started after it
StopsAtThreshold ==
    CriticLooped =>
        \A i \in 1..Len(result.iterations) :
            IsFinal(result.iterations[i].quality_score, env.quality_threshold) =>
                /\ i = Len(result.iterations)
                /\ pc \in {"critic_summary", "critic_done"}

\* is_final and stopped_at_max are carried by the last record only, never both,
\* is_final exactly for a score at the threshold, stopped_at_max exactly for
\* iteration max_iterations below the threshold
FlagsOnLastRecordOnly ==
    CriticLooped =>
        \A i \in 1..Len(result.iterations) :
            LET it == result.iterations[i]
            IN  /\ (it.is_final \/ it.stopped_at_max) => i = Len(result.iterations)
                /\ ~(it.is_final /\ it.stopped_at_max)
                /\ it.is_final <=> IsFinal(it.quality_score, env.quality_threshold)
                /\ it.stopped_at_max <=>
                       (i = env.max_iterations /\ ~IsFinal(it.quality_score, env.quality_threshold))

\* C30: a run of the iterative improvement loop always ends; it starts at
\* least 1 and at most max_iterations iterations; the iteration whose score
\* reaches the threshold is the last one; is_final and stopped_at_max appear
\* on the last recorded iteration only and never together.
C30_LoopIsBoundedAndStopsAtThreshold ==
    /\ [](IterationsWithinLimit /\ StopsAtThreshold /\ FlagsOnLastRecordOnly)
    /\ <>CriticEnded

\* C30: a finished run that reached the threshold in its second iteration,
\* before the limit, after a first iteration below the threshold.
C30_ThresholdReachedBeforeTheLimit ==
    /\ pc = "critic_done"
    /\ env.max_iterations = 3
    /\ Len(result.iterations) = 2
    /\ ~result.iterations[1].is_final
    /\ result.iterations[2].is_final
    /\ ~result.iterations[2].stopped_at_max

=============================================================================
